---- MODULE Spec2Model ----
(***************************************************************************)
(* auth-popup: the parent-side Authorization Coordinator (AuthPopup) and   *)
(* the agent-side Callback Processor (CallbackHandler).                    *)
(*                                                                         *)
(* JavaScript values are represented by records of one shape per kind of   *)
(* value, so that any two values of a kind can be compared:                *)
(*   string-valued fields hold a string, Undefined standing for a missing  *)
(*   field; numbers are [kind, val]; arrays are [kind, items];             *)
(*   object references are "set" / Null.                                   *)
(***************************************************************************)
EXTENDS Integers, Sequences, FiniteSets, TLC

VARIABLES
    phase,              \* position of open(): "idle", "thrown" (authorize threw), "waiting" (armed)
    options,            \* this.options
    popup,              \* this.popup
    broadcastChannel,   \* this.broadcastChannel
    messageHandler,     \* this.messageHandler (closure over allowedOrigins)
    checkInterval,      \* this.checkInterval
    successHandler,     \* this.successHandler
    errorHandler,       \* this.errorHandler
    timeoutId,          \* waitForResult: let timeoutId
    isSettled,          \* waitForResult: let isSettled
    promise,            \* the promise open() returned
    timers,             \* browser: the live timers of the page
    windowListener,     \* browser: a 'message' listener is registered on window
    channelState,       \* browser: the coordinator's BroadcastChannel object
    win,                \* browser: the agent window
    location,           \* browser: window.location.href of the parent page
    lastEvent,          \* history: the event the last step handled
    firstTerminal,      \* history: the event that set isSettled
    settleCalls,        \* history: number of resolve()/reject() calls made
    timeoutsSet,        \* history: number of setTimeout calls that armed the deadline
    cbPhase,            \* callback page: "idle", "done" (init returned), "threw" (init threw)
    cbRequest,          \* callback page: the options, the URL and the browser it ran in
    cbResult,           \* callback page: the value CallbackHandler.init returned
    cbBroadcasts,       \* callback page: messages posted on its BroadcastChannel
    cbPosts,            \* callback page: postMessage calls made on window.opener
    cbWarnings,         \* callback page: console warnings
    cbTimer,            \* callback page: the timer of autoClose
    cbPage,             \* callback page: the window itself
    sanInput,           \* sanitizeParam on its own: the string it is given
    sanOutput,          \* sanitizeParam on its own: the results of applying it again and again
    voInput,            \* validateOrigin on its own: the origin and the allowlist it is given
    voOutput,           \* validateOrigin on its own: what it returned
    listeners,          \* AuthPopup.listen(): one record per call, in call order
    pkce,               \* generatePKCE() / generateState(): the call, its environment, its outcome
    pair                \* two AuthPopup instances of one parent page, and the page they share

vars == <<phase, options, popup, broadcastChannel, messageHandler, checkInterval,
          successHandler, errorHandler, timeoutId, isSettled, promise, timers,
          windowListener, channelState, win, location, lastEvent, firstTerminal,
          settleCalls, timeoutsSet, cbPhase, cbRequest, cbResult, cbBroadcasts, cbPosts, cbWarnings,
          cbTimer, cbPage, sanInput, sanOutput, voInput, voOutput, listeners,
          pkce, pair>>

\* what the program and the browser hold; the history variables are apart
coordVars == <<phase, options, popup, broadcastChannel, messageHandler, checkInterval,
               successHandler, errorHandler, timeoutId, isSettled, promise, timers,
               windowListener, channelState, win, location>>

\* the callback page
cbVars == <<cbPhase, cbRequest, cbResult, cbBroadcasts, cbPosts, cbWarnings, cbTimer,
            cbPage>>

\* the utility functions called on their own
utilVars == <<sanInput, sanOutput, voInput, voOutput>>

----------------------------------------------------------------------------
(* Values *)

Undefined == "undefined"
Null == "null"
Ref == "set"

Truthy(s) == s \notin {Undefined, Null, "", "false"}

Num(k, v) == [kind |-> k, val |-> v]
NumUndefined == Num("undefined", 0)
NumberIsFinite(x) == x.kind = "finite"

Str(s) == [kind |-> "string", text |-> s]
StrUndefined == [kind |-> "undefined", text |-> ""]

Arr(items) == [kind |-> "array", items |-> items]
ArrUndefined == [kind |-> "undefined", items |-> <<>>]
ArrayIsArray(a) == a.kind = "array"
Includes(items, x) == \E i \in 1..Len(items) : items[i] = x

SelfOrigin == "https://app.example"
PartnerOrigin == "https://partner.example"
EvilOrigin == "https://evil.example"
OpaqueOrigin == "null"
Wildcard == "*"
AppUrl == "https://app.example/login"
AuthUrlOk == "https://idp.example/authorize?client_id=1"

\* new URL(s) without a base succeeds exactly on absolute URLs
AbsoluteURLs == {SelfOrigin, PartnerOrigin, EvilOrigin, AppUrl, AuthUrlOk}
URLParses(s) == s \in AbsoluteURLs

\* AuthResult | AuthError as it crosses the channel
Data(code, state, error, desc) ==
    [present |-> TRUE, code |-> code, state |-> state, error |-> error,
     error_description |-> desc]
NoData ==
    [present |-> FALSE, code |-> Undefined, state |-> Undefined, error |-> Undefined,
     error_description |-> Undefined]

Msg(type, data) == [isObject |-> TRUE, type |-> type, data |-> data]
NonObjectMsg == [isObject |-> FALSE, type |-> Undefined, data |-> NoData]

\* an exception / rejection reason
Err(name, message) == [name |-> name, message |-> message, authUrl |-> Undefined]
NoErr == Err(Undefined, Undefined)

Pending == [status |-> "pending", value |-> NoData, reason |-> NoErr]
Resolved(v) == [status |-> "resolved", value |-> v, reason |-> NoErr]
Rejected(e) == [status |-> "rejected", value |-> NoData, reason |-> e]

NoHandler == [installed |-> FALSE, allowedOrigins |-> <<>>]
Handler(allowed) == [installed |-> TRUE, allowedOrigins |-> allowed]

NoWindow == [exists |-> FALSE, closed |-> FALSE, isolated |-> FALSE, target |-> Undefined]

----------------------------------------------------------------------------
(* src/utils/security.ts *)

\* a check that lets every origin through
validateOrigin_noCheck(origin, allowedOrigins) == TRUE

validateOrigin(origin, allowedOrigins) ==
    IF origin = "" THEN FALSE
    ELSE IF ~ArrayIsArray(allowedOrigins) \/ Len(allowedOrigins.items) = 0 THEN FALSE
    ELSE IF Includes(allowedOrigins.items, Wildcard) THEN TRUE
    ELSE IF ~URLParses(origin) THEN FALSE
    ELSE Includes(allowedOrigins.items, origin)

----------------------------------------------------------------------------
(* src/utils/browser.ts *)

\* ua: "desktop", "mobile", or "none" (no navigator.userAgent)
detectBrowser(ua) ==
    IF ua = "none" THEN [isMobile |-> FALSE, supportsPopup |-> FALSE]
    ELSE [isMobile |-> ua = "mobile", supportsPopup |-> ua # "mobile"]

\* browser.ts declares isPopupBlocked twice; the later declaration is the one
\* in force. h: what the handle answers: isNull, closed and dims each "throws"
\* when the read raises. The result is "true", "false" or "throws" (the read
\* of popup.closed is outside the try block).
isPopupBlocked(h) ==
    IF h.isNull THEN "true"
    ELSE IF h.closed = "throws" THEN "throws"
    ELSE IF h.closed = "true" THEN "true"
    ELSE IF h.dims = "throws" THEN "false"
    ELSE IF h.dims = "zero" THEN "true"
    ELSE "false"

----------------------------------------------------------------------------
(* src/auth-popup.ts: AuthPopup *)

DEFAULT_WIDTH == 500
DEFAULT_HEIGHT == 600
DEFAULT_TIMEOUT == 120000

WithDefault(x, d) == IF x.kind = "undefined" THEN Num("finite", d) ELSE x

\* The coordinator's fields, the closure variables of waitForResult and the
\* browser objects they act on, as one record; threw is set when an exception
\* leaves the running handler.
Coord ==
    [phase |-> phase, options |-> options, popup |-> popup,
     broadcastChannel |-> broadcastChannel, messageHandler |-> messageHandler,
     checkInterval |-> checkInterval, successHandler |-> successHandler,
     errorHandler |-> errorHandler, timeoutId |-> timeoutId, isSettled |-> isSettled,
     promise |-> promise, timers |-> timers, windowListener |-> windowListener,
     channelState |-> channelState, win |-> win, location |-> location,
     calls |-> 0, armed |-> 0, threw |-> FALSE]

Apply(c) ==
    /\ phase' = c.phase
    /\ options' = c.options
    /\ popup' = c.popup
    /\ broadcastChannel' = c.broadcastChannel
    /\ messageHandler' = c.messageHandler
    /\ checkInterval' = c.checkInterval
    /\ successHandler' = c.successHandler
    /\ errorHandler' = c.errorHandler
    /\ timeoutId' = c.timeoutId
    /\ isSettled' = c.isSettled
    /\ promise' = c.promise
    /\ timers' = c.timers
    /\ windowListener' = c.windowListener
    /\ channelState' = c.channelState
    /\ win' = c.win
    /\ location' = c.location

\* resolve(result) / reject(error) of the promise of waitForResult: the first
\* call decides the promise, a later one is ignored by the promise
resolve(c, result) ==
    [c EXCEPT !.calls = @ + 1,
              !.promise = IF @.status = "pending" THEN Resolved(result) ELSE @]

reject(c, error) ==
    [c EXCEPT !.calls = @ + 1,
              !.promise = IF @.status = "pending" THEN Rejected(error) ELSE @]

\* throw out of authorize(): the async function's promise is rejected
Throw(c, error) ==
    [c EXCEPT !.phase = "thrown", !.promise = Rejected(error)]

\* a fallback that does not navigate
redirectToAuth_stays(c, authUrl) == c

redirectToAuth(c, authUrl) == [c EXCEPT !.location = authUrl]

\* a cleanup that leaves the deadline timer running
cleanup_keepsTimer(c, forceClose) ==
    LET c2 == IF c.checkInterval # Null
              THEN [c EXCEPT !.timers = @ \ {"interval"}, !.checkInterval = Null] ELSE c
        c3 == IF c2.messageHandler.installed
              THEN [c2 EXCEPT !.windowListener = FALSE, !.messageHandler = NoHandler] ELSE c2
        c4 == IF c3.broadcastChannel # Null
              THEN [c3 EXCEPT !.channelState = "closed", !.broadcastChannel = Null] ELSE c3
    IN  IF (forceClose \/ Truthy(c4.options.forceClosePopup)) /\ c4.popup # Null
        THEN IF c4.win.isolated THEN [c4 EXCEPT !.threw = TRUE]
             ELSE IF ~c4.win.closed THEN [c4 EXCEPT !.win.closed = TRUE, !.popup = Null]
             ELSE c4
        ELSE c4

\* reading popup.closed raises when the window is isolated from its opener;
\* the read at the end of cleanup is outside every try block
cleanup(c, forceClose) ==
    LET c1 == IF c.timeoutId # Null
              THEN [c EXCEPT !.timers = @ \ {"timeout"}, !.timeoutId = Null] ELSE c
        c2 == IF c1.checkInterval # Null
              THEN [c1 EXCEPT !.timers = @ \ {"interval"}, !.checkInterval = Null] ELSE c1
        c3 == IF c2.messageHandler.installed
              THEN [c2 EXCEPT !.windowListener = FALSE, !.messageHandler = NoHandler] ELSE c2
        c4 == IF c3.broadcastChannel # Null
              THEN [c3 EXCEPT !.channelState = "closed", !.broadcastChannel = Null] ELSE c3
    IN  IF (forceClose \/ Truthy(c4.options.forceClosePopup)) /\ c4.popup # Null
        THEN IF c4.win.isolated THEN [c4 EXCEPT !.threw = TRUE]
             ELSE IF ~c4.win.closed THEN [c4 EXCEPT !.win.closed = TRUE, !.popup = Null]
             ELSE c4
        ELSE c4

\* a handler that resolves without looking at isSettled and without tearing
\* the listeners down
handleSuccess_resolveOnly(c, result) == resolve([c EXCEPT !.isSettled = TRUE], result)

\* a handleSuccess that forces the window closed
handleSuccess_forceClose(c, result) ==
    IF c.isSettled THEN c
    ELSE LET c1 == cleanup([c EXCEPT !.isSettled = TRUE], TRUE)
         IN  IF c1.threw THEN c1 ELSE resolve(c1, result)

handleSuccess(c, result) ==
    IF c.isSettled THEN c
    ELSE LET c1 == cleanup([c EXCEPT !.isSettled = TRUE], FALSE)
         IN  IF c1.threw THEN c1 ELSE resolve(c1, result)

\* error: [instanceofError, message, data]: an Error object or an AuthError
ErrorObject(message) == [instanceofError |-> TRUE, message |-> message, data |-> NoData]
AuthErrorValue(data) == [instanceofError |-> FALSE, message |-> Undefined, data |-> data]

handleError(c, error, forceClose) ==
    IF c.isSettled THEN c
    ELSE LET c1 == cleanup([c EXCEPT !.isSettled = TRUE], forceClose)
         IN  IF c1.threw THEN c1
             ELSE IF error.instanceofError THEN reject(c1, Err("Error", error.message))
             ELSE IF ~error.data.present THEN [c1 EXCEPT !.threw = TRUE]
             ELSE reject(c1, Err("Error",
                        IF Truthy(error.data.error_description)
                        THEN error.data.error_description
                        ELSE IF error.data.error = Undefined THEN ""
                        ELSE error.data.error))

\* a handleMessage that takes a success message whatever its code
handleMessage_anyCode(c, data, onSuccess, onError) ==
    IF ~data.isObject THEN c
    ELSE IF data.type = "auth-success"
         THEN IF onSuccess \/ c.successHandler # Null
              THEN handleSuccess(c, data.data)
              ELSE c
    ELSE IF data.type = "auth-error"
         THEN IF onError \/ c.errorHandler # Null
              THEN handleError(c, AuthErrorValue(data.data), FALSE)
              ELSE c
    ELSE c

\* a handleMessage that takes a message of a type it does not know for a failure
handleMessage_unknownFails(c, data, onSuccess, onError) ==
    IF ~data.isObject THEN c
    ELSE IF data.type = "auth-success"
         THEN IF ~data.data.present THEN [c EXCEPT !.threw = TRUE]
              ELSE IF Truthy(data.data.code) /\ (onSuccess \/ c.successHandler # Null)
                   THEN handleSuccess(c, data.data)
                   ELSE c
    ELSE IF onError \/ c.errorHandler # Null
         THEN handleError(c, ErrorObject("Unknown message"), FALSE)
         ELSE c

\* onSuccess / onError: whether the caller passed the handler; without it the
\* instance's handler is used when it is installed
handleMessage(c, data, onSuccess, onError) ==
    IF ~data.isObject THEN c
    ELSE IF data.type = "auth-success"
         THEN IF ~data.data.present THEN [c EXCEPT !.threw = TRUE]
              ELSE IF Truthy(data.data.code) /\ (onSuccess \/ c.successHandler # Null)
                   THEN handleSuccess(c, data.data)
                   ELSE c
    ELSE IF data.type = "auth-error"
         THEN IF onError \/ c.errorHandler # Null
              THEN handleError(c, AuthErrorValue(data.data), FALSE)
              ELSE c
    ELSE c

\* bc: "ok", "undefined" (no BroadcastChannel in this browser) or "throws"
setupCommunication(c, allowedOrigins, bc) ==
    LET c1 == IF bc = "ok"
              THEN [c EXCEPT !.broadcastChannel = Ref, !.channelState = "open"]
              ELSE c
    IN  [c1 EXCEPT !.messageHandler = Handler(allowedOrigins), !.windowListener = TRUE]

\* a waitForResult that arms the timers and leaves the handlers for later
waitForResult_noHandlers(c, timeout) ==
    [c EXCEPT !.phase = "waiting", !.promise = Pending, !.isSettled = FALSE,
              !.checkInterval = Ref, !.timeoutId = Ref, !.armed = @ + 1,
              !.timers = @ \cup {"interval", "timeout"}]

waitForResult(c, timeout) ==
    LET c1 == IF c.broadcastChannel # Null
              THEN [c EXCEPT !.channelState = "listening"] ELSE c
    IN  [c1 EXCEPT !.phase = "waiting", !.promise = Pending, !.isSettled = FALSE,
                   !.successHandler = Ref, !.errorHandler = Ref,
                   !.checkInterval = Ref, !.timeoutId = Ref, !.armed = @ + 1,
                   !.timers = @ \cup {"interval", "timeout"}]

\* the 'message' listener installed by setupCommunication
MessageHandler(c, origin, data) ==
    IF ~validateOrigin(origin, Arr(c.messageHandler.allowedOrigins)) THEN c
    ELSE handleMessage(c, data, FALSE, FALSE)

\* an onmessage that restarts the deadline whenever the channel delivers
BroadcastOnMessage_restartsDeadline(c, data) ==
    handleMessage([c EXCEPT !.armed = @ + 1], data, TRUE, TRUE)

\* broadcastChannel.onmessage installed by waitForResult
BroadcastOnMessage(c, data) == handleMessage(c, data, TRUE, TRUE)

\* a setInterval callback that takes a failing probe for a closed window
CheckIntervalTick_failsOnThrow(c) ==
    IF c.popup # Null
    THEN IF c.win.isolated \/ c.win.closed
         THEN handleError(c, ErrorObject("Authorization popup was closed"), FALSE)
         ELSE c
    ELSE c

\* the setInterval callback of waitForResult
CheckIntervalTick(c) ==
    IF c.popup # Null
    THEN IF c.win.isolated THEN c
         ELSE IF c.win.closed
              THEN handleError(c, ErrorObject("Authorization popup was closed"), FALSE)
              ELSE c
    ELSE c

\* the setTimeout callback of waitForResult
TimeoutFires(c) == handleError(c, ErrorObject("Authorization timeout"), TRUE)

\* the checks of authorize before this.options is set: the message of the
\* error thrown, "" when they pass
validateRequest(opts) ==
    IF ~opts.isObject THEN "options is required"
    ELSE IF opts.authUrl.kind # "string" \/ opts.authUrl.text = ""
         THEN "authUrl is required and must be a string"
    ELSE IF ~URLParses(opts.authUrl.text)
         THEN "Invalid authUrl format: " \o opts.authUrl.text
    ELSE ""

\* a validation that accepts any allowedOrigins
validateDefaults_anyOrigins(width, height, timeout, allowedOrigins) ==
    IF ~NumberIsFinite(width) \/ width.val <= 0 THEN "Invalid width"
    ELSE IF ~NumberIsFinite(height) \/ height.val <= 0 THEN "Invalid height"
    ELSE IF ~NumberIsFinite(timeout) \/ timeout.val <= 0 THEN "Invalid timeout"
    ELSE ""

\* the checks of authorize on the destructured options, defaults applied
validateDefaults(width, height, timeout, allowedOrigins) ==
    IF ~NumberIsFinite(width) \/ width.val <= 0 THEN "Invalid width"
    ELSE IF ~NumberIsFinite(height) \/ height.val <= 0 THEN "Invalid height"
    ELSE IF ~NumberIsFinite(timeout) \/ timeout.val <= 0 THEN "Invalid timeout"
    ELSE IF ~ArrayIsArray(allowedOrigins) \/ Len(allowedOrigins.items) = 0
         THEN "allowedOrigins must be a non-empty array"
    ELSE ""

authorize(c, opts, ua, h, bc) ==
    IF validateRequest(opts) # "" THEN Throw(c, Err("Error", validateRequest(opts)))
    ELSE
    LET c1 == [c EXCEPT !.options = opts]
        authUrl == opts.authUrl.text
        width == WithDefault(opts.width, DEFAULT_WIDTH)
        height == WithDefault(opts.height, DEFAULT_HEIGHT)
        timeout == WithDefault(opts.timeout, DEFAULT_TIMEOUT)
        redirectFallback == IF opts.redirectFallback = Undefined THEN "true"
                            ELSE opts.redirectFallback
        allowedOrigins == IF opts.allowedOrigins.kind = "undefined"
                          THEN Arr(<<SelfOrigin>>) ELSE opts.allowedOrigins
        invalid == validateDefaults(width, height, timeout, allowedOrigins)
    IN
    IF invalid # "" THEN Throw(c1, Err("Error", invalid))
    ELSE
    LET browserInfo == detectBrowser(ua)
        target == IF ~browserInfo.supportsPopup THEN "_blank" ELSE "auth-popup"
        c2 == [c1 EXCEPT !.popup = IF h.isNull THEN Null ELSE Ref,
                         !.win = IF h.isNull THEN NoWindow
                                 ELSE [exists |-> TRUE, closed |-> h.closed = "true",
                                       isolated |-> h.closed = "throws",
                                       target |-> target]]
        blocked == isPopupBlocked(h)
    IN
    IF blocked = "throws" THEN Throw(c2, Err("SecurityError", "closed"))
    ELSE IF blocked = "true"
         THEN IF Truthy(redirectFallback)
              THEN Throw(redirectToAuth(c2, authUrl),
                         Err("Error", "Popup blocked, redirecting to authorization page"))
              ELSE Throw(c2, Err("Error", "Popup was blocked by browser"))
    ELSE waitForResult(setupCommunication(c2, allowedOrigins.items, bc), timeout)

----------------------------------------------------------------------------
(* The inputs of the coordinator *)

Handle(isNull, closed, dims) == [isNull |-> isNull, closed |-> closed, dims |-> dims]
NullHandle == Handle(TRUE, "true", "zero")

\* what window.open can hand back
HandleInputs ==
    {NullHandle,
     Handle(FALSE, "false", "nonzero"),
     Handle(FALSE, "false", "throws"),
     Handle(FALSE, "false", "zero"),
     Handle(FALSE, "true", "nonzero"),
     Handle(FALSE, "throws", "nonzero")}

UserAgents == {"desktop", "mobile"}
BroadcastSupport == {"ok", "undefined", "throws"}

Options(authUrl, width, height, timeout, redirectFallback, allowedOrigins, forceClosePopup) ==
    [isObject |-> TRUE, authUrl |-> authUrl, width |-> width, height |-> height,
     timeout |-> timeout, redirectFallback |-> redirectFallback,
     allowedOrigins |-> allowedOrigins, forceClosePopup |-> forceClosePopup]

BaseOptions ==
    Options(Str(AuthUrlOk), NumUndefined, NumUndefined, NumUndefined, Undefined,
            ArrUndefined, Undefined)

NoOptions == [BaseOptions EXCEPT !.isObject = FALSE, !.authUrl = StrUndefined]

AuthUrlInputs == {Str(AuthUrlOk), Str("/authorize"), Str(""), StrUndefined}
WidthInputs == {NumUndefined, Num("finite", 400), Num("finite", 0), Num("NaN", 0)}
HeightInputs == {NumUndefined, Num("finite", 0 - 1), Num("Infinity", 0)}
TimeoutInputs == {NumUndefined, Num("finite", 50), Num("finite", 0), Num("string", 0)}
RedirectInputs == {Undefined, "false"}
ForceCloseInputs == {Undefined, "true"}
AllowedInputs ==
    {ArrUndefined, Arr(<<>>), Arr(<<PartnerOrigin>>), Arr(<<Wildcard>>),
     Arr(<<SelfOrigin, OpaqueOrigin>>), [kind |-> "string", items |-> <<>>]}

\* every allowedOrigins with every redirectFallback and with every
\* forceClosePopup, and every value of the other options with the rest at
\* their defaults
OptionInputs ==
    {NoOptions}
    \cup {[BaseOptions EXCEPT !.redirectFallback = r, !.allowedOrigins = a] :
            r \in RedirectInputs, a \in AllowedInputs}
    \cup {[BaseOptions EXCEPT !.forceClosePopup = f, !.allowedOrigins = a] :
            f \in ForceCloseInputs, a \in AllowedInputs}
    \cup {[BaseOptions EXCEPT !.authUrl = u] : u \in AuthUrlInputs}
    \cup {[BaseOptions EXCEPT !.width = w] : w \in WidthInputs}
    \cup {[BaseOptions EXCEPT !.height = x] : x \in HeightInputs}
    \cup {[BaseOptions EXCEPT !.timeout = t, !.width = w] :
            t \in TimeoutInputs, w \in {NumUndefined, Num("finite", 400)}}

Origins == {SelfOrigin, EvilOrigin, OpaqueOrigin}

Messages ==
    {Msg("auth-success", Data("abc123", "xyz", Undefined, Undefined)),
     Msg("auth-success", Data("", "xyz", Undefined, Undefined)),
     Msg("auth-success", Data(Undefined, "xyz", Undefined, Undefined)),
     Msg("auth-success", NoData),
     Msg("auth-error", Data(Undefined, Undefined, "access_denied", "User cancelled")),
     Msg("auth-error", Data(Undefined, Undefined, "access_denied", Undefined)),
     Msg("auth-error", Data(Undefined, Undefined, "server_error", "Authorization timeout")),
     Msg("auth-error", NoData),
     Msg("other", NoData),
     NonObjectMsg}

\* the request of an open() call: its options and what the browser answers
Request(opts, ua, h, bc) == [opts |-> opts, ua |-> ua, h |-> h, bc |-> bc]
NoRequest == Request(NoOptions, "desktop", NullHandle, "undefined")

Event(kind, origin, msg, req) == [kind |-> kind, origin |-> origin, msg |-> msg, req |-> req]
NoEvent == Event("none", Undefined, NonObjectMsg, NoRequest)

\* resolve()/reject() calls are counted up to MaxSettleCalls
MaxSettleCalls == 3
Count(n, k) == IF n + k > MaxSettleCalls THEN MaxSettleCalls ELSE n + k

\* the history variables of a step that ran a handler from Coord to c
History(c, ev) ==
    /\ lastEvent' = ev
    /\ firstTerminal' = IF ~isSettled /\ c.isSettled THEN ev ELSE firstTerminal
    /\ settleCalls' = Count(settleCalls, c.calls)
    /\ timeoutsSet' = Count(timeoutsSet, c.armed)
    /\ UNCHANGED cbVars
    /\ UNCHANGED utilVars
    /\ UNCHANGED listeners
    /\ UNCHANGED pkce
    /\ UNCHANGED pair

----------------------------------------------------------------------------
(* src/callback-handler.ts: CallbackHandler *)

\* A string of the callback URL is the sequence of its character codes;
\* string | null is [isNull, chars].
S(chars) == [isNull |-> FALSE, chars |-> chars]
NullS == [isNull |-> TRUE, chars |-> <<>>]
TruthyS(v) == ~v.isNull /\ Len(v.chars) > 0

MAX_PARAM_LENGTH == 2048
AUTO_CLOSE_DELAY == 100

\* /[<>"'`\x00-\x1f\x7f]/
StrippedCodes == {60, 62, 34, 39, 96} \cup (0..31) \cup {127}

Strip(chars) == SelectSeq(chars, LAMBDA ch : ch \notin StrippedCodes)
Substring(chars, n) == IF Len(chars) <= n THEN chars ELSE SubSeq(chars, 1, n)

\* a sanitizeParam that truncates and strips nothing
sanitizeParam_truncateOnly(value) ==
    IF value.isNull \/ Len(value.chars) = 0 THEN NullS
    ELSE S(Substring(value.chars, MAX_PARAM_LENGTH))

sanitizeParam(value) ==
    IF value.isNull \/ Len(value.chars) = 0 THEN NullS
    ELSE S(Substring(Strip(value.chars), MAX_PARAM_LENGTH))

\* a || b on string | null
OrElse(a, b) == IF TruthyS(a) THEN a ELSE b

\* AuthResult / AuthError built by process(): a missing field is NullS
CbData(code, state, error, desc) ==
    [code |-> code, state |-> state, error |-> error, error_description |-> desc]
CbMsg(type, data) == [type |-> type, data |-> data]
NoCbResult == [returned |-> FALSE, success |-> FALSE, data |-> CbData(NullS, NullS, NullS, NullS)]
CbReturn(success, data) == [returned |-> TRUE, success |-> success, data |-> data]

INVALID_CALLBACK == S(<<105, 110, 118, 97, 108, 105, 100, 95, 99, 97, 108, 108, 98, 97, 99, 107>>)
\* 'No authorization code or error found in callback URL'
INVALID_CALLBACK_DESCRIPTION ==
    S(<<78, 111, 32, 97, 117, 116, 104, 111, 114, 105, 122, 97, 116, 105, 111, 110, 32,
        99, 111, 100, 101, 32, 111, 114, 32, 101, 114, 114, 111, 114, 32, 102, 111, 117,
        110, 100, 32, 105, 110, 32, 99, 97, 108, 108, 98, 97, 99, 107, 32, 85, 82, 76>>)

NoTimer == [scheduled |-> 0, pending |-> FALSE, delay |-> 0, isRedirectMode |-> FALSE]

\* what the callback page has done so far, as one record
\* threw is set when an exception leaves the running function
Callback ==
    [result |-> cbResult, broadcasts |-> cbBroadcasts, posts |-> cbPosts,
     warnings |-> cbWarnings, timer |-> cbTimer, page |-> cbPage, threw |-> FALSE]

\* env.bc: "ok", "undefined" or "throws"
sendViaBroadcastChannel(k, message, env) ==
    IF env.bc = "ok" THEN [k EXCEPT !.broadcasts = Append(@, message)]
    ELSE IF env.bc = "throws" THEN [k EXCEPT !.warnings = @ \cup {"Failed to send via BroadcastChannel"}]
    ELSE k

\* a sendViaPostMessage that looks for the opener and not at its closed flag
sendViaPostMessage_anyOpener(k, message, opts, env) ==
    IF env.opener = "none"
    THEN [k EXCEPT !.warnings = @ \cup {"No window.opener available or opener is closed"}]
    ELSE LET targetOrigin == IF Includes(opts.allowedOrigins.items, Wildcard) THEN Wildcard
                             ELSE opts.allowedOrigins.items[1]
         IN  [k EXCEPT !.posts = Append(@, [message |-> message,
                                            targetOrigin |-> targetOrigin])]

\* a sendViaPostMessage that addresses any window when the allowlist names
\* more than one origin
sendViaPostMessage_anyListed(k, message, opts, env) ==
    IF env.opener = "isolated" THEN [k EXCEPT !.threw = TRUE]
    ELSE IF env.opener # "live"
    THEN [k EXCEPT !.warnings = @ \cup {"No window.opener available or opener is closed"}]
    ELSE LET targetOrigin == IF Len(opts.allowedOrigins.items) > 1 THEN Wildcard
                             ELSE opts.allowedOrigins.items[1]
         IN  [k EXCEPT !.posts = Append(@, [message |-> message,
                                            targetOrigin |-> targetOrigin])]

\* env.opener: "none", "live", "closed" or "isolated" (the opener is there and
\* reading its closed flag raises, as reading popup.closed does for the
\* coordinator). postMessage raises a SyntaxError on a target origin that is
\* neither "*" nor a URL.
sendViaPostMessage(k, message, opts, env) ==
    IF env.opener = "isolated" THEN [k EXCEPT !.threw = TRUE]
    ELSE IF env.opener # "live"
    THEN [k EXCEPT !.warnings = @ \cup {"No window.opener available or opener is closed"}]
    ELSE LET targetOrigin == IF Includes(opts.allowedOrigins.items, Wildcard) THEN Wildcard
                             ELSE opts.allowedOrigins.items[1]
             k1 == IF targetOrigin = Wildcard
                   THEN [k EXCEPT !.warnings = @ \cup {"Security Warning: Sending message with wildcard origin"}]
                   ELSE k
         IN  IF targetOrigin # Wildcard /\ ~URLParses(targetOrigin)
             THEN [k1 EXCEPT !.warnings = @ \cup {"Failed to send via postMessage"}]
             ELSE [k1 EXCEPT !.posts = Append(@, [message |-> message,
                                                  targetOrigin |-> targetOrigin])]

\* a sendMessage that gives up when the broadcast send has failed
sendMessage_stopsOnThrow(k, message, opts, env) ==
    IF env.bc = "throws" THEN sendViaBroadcastChannel(k, message, env)
    ELSE sendViaPostMessage(sendViaBroadcastChannel(k, message, env), message, opts, env)

sendMessage(k, message, opts, env) ==
    sendViaPostMessage(sendViaBroadcastChannel(k, message, env), message, opts, env)

\* an autoClose that does not look at the autoClose option
autoClose_always(k, opts, env) ==
    LET delay == WithDefault(opts.autoCloseDelay, AUTO_CLOSE_DELAY)
        safeDelay == IF NumberIsFinite(delay) /\ delay.val >= 0 THEN delay.val
                     ELSE AUTO_CLOSE_DELAY
    IN  [k EXCEPT !.timer = [scheduled |-> @.scheduled + 1, pending |-> TRUE,
                             delay |-> safeDelay,
                             isRedirectMode |-> env.opener # "live"]]

autoClose(k, opts, env) ==
    IF opts.autoClose = "false" THEN k
    ELSE IF env.opener = "isolated" THEN [k EXCEPT !.threw = TRUE]
    ELSE LET delay == WithDefault(opts.autoCloseDelay, AUTO_CLOSE_DELAY)
             safeDelay == IF NumberIsFinite(delay) /\ delay.val >= 0 THEN delay.val
                          ELSE AUTO_CLOSE_DELAY
         IN  [k EXCEPT !.timer = [scheduled |-> @.scheduled + 1, pending |-> TRUE,
                                  delay |-> safeDelay,
                                  isRedirectMode |-> env.opener # "live"]]

sendSuccess(k, result, opts, env) ==
    LET k1 == sendMessage(k, CbMsg("auth-success", result), opts, env)
    IN  IF k1.threw THEN k1 ELSE autoClose(k1, opts, env)

sendError(k, error, opts, env) ==
    LET k1 == sendMessage(k, CbMsg("auth-error", error), opts, env)
    IN  IF k1.threw THEN k1 ELSE autoClose(k1, opts, env)

\* return value: the function returns it unless an exception is on its way out
Return(k, value) == IF k.threw THEN k ELSE [k EXCEPT !.result = value]

\* URLSearchParams.get: the value of the key, NullS when the key is not there
Get(params, key) == params[key]

\* a process() that looks at code before error
process_codeFirst(k, opts, url, env) ==
    LET code == sanitizeParam(OrElse(Get(url.search, "code"), Get(url.hash, "code")))
        state == sanitizeParam(OrElse(Get(url.search, "state"), Get(url.hash, "state")))
        error == sanitizeParam(OrElse(Get(url.search, "error"), Get(url.hash, "error")))
        errorDescription ==
            sanitizeParam(OrElse(Get(url.search, "error_description"),
                                 Get(url.hash, "error_description")))
    IN  IF TruthyS(code)
        THEN LET resultData == CbData(code, IF TruthyS(state) THEN state ELSE NullS,
                                      NullS, NullS)
             IN  [sendSuccess(k, resultData, opts, env)
                     EXCEPT !.result = CbReturn(TRUE, resultData)]
        ELSE IF TruthyS(error)
        THEN LET errorData == CbData(NullS, NullS, error,
                                     IF TruthyS(errorDescription) THEN errorDescription
                                     ELSE NullS)
             IN  [sendError(k, errorData, opts, env)
                     EXCEPT !.result = CbReturn(FALSE, errorData)]
        ELSE LET errorData == CbData(NullS, NullS, INVALID_CALLBACK,
                                     INVALID_CALLBACK_DESCRIPTION)
             IN  [sendError(k, errorData, opts, env)
                     EXCEPT !.result = CbReturn(FALSE, errorData)]

\* the try block of process()
processTry(k, opts, url, env) ==
    LET code == sanitizeParam(OrElse(Get(url.search, "code"), Get(url.hash, "code")))
        state == sanitizeParam(OrElse(Get(url.search, "state"), Get(url.hash, "state")))
        error == sanitizeParam(OrElse(Get(url.search, "error"), Get(url.hash, "error")))
        errorDescription ==
            sanitizeParam(OrElse(Get(url.search, "error_description"),
                                 Get(url.hash, "error_description")))
    IN  IF TruthyS(error)
        THEN LET errorData == CbData(NullS, NullS, error,
                                     IF TruthyS(errorDescription) THEN errorDescription
                                     ELSE NullS)
             IN  Return(sendError(k, errorData, opts, env),
                        CbReturn(FALSE, errorData))
        ELSE IF TruthyS(code)
        THEN LET resultData == CbData(code, IF TruthyS(state) THEN state ELSE NullS,
                                      NullS, NullS)
             IN  Return(sendSuccess(k, resultData, opts, env),
                        CbReturn(TRUE, resultData))
        ELSE LET errorData == CbData(NullS, NullS, INVALID_CALLBACK,
                                     INVALID_CALLBACK_DESCRIPTION)
             IN  Return(sendError(k, errorData, opts, env),
                        CbReturn(FALSE, errorData))

\* 'callback_error'
CALLBACK_ERROR == S(<<99, 97, 108, 108, 98, 97, 99, 107, 95, 101, 114, 114, 111, 114>>)
\* err.message of the exception a failed read of opener.closed raises
PROBE_ERROR_MESSAGE == S(<<99, 108, 111, 115, 101, 100>>)

\* process(): the try block, and the catch block when the try block threw;
\* an exception raised in the catch block leaves process()
process(k, opts, url, env) ==
    LET k1 == processTry(k, opts, url, env)
        errorData == CbData(NullS, NullS, CALLBACK_ERROR, PROBE_ERROR_MESSAGE)
    IN  IF ~k1.threw THEN k1
        ELSE Return(sendError([k1 EXCEPT !.threw = FALSE], errorData, opts, env),
                    CbReturn(FALSE, errorData))

\* the check of the constructor: TRUE when it throws
constructorThrows(opts) ==
    opts.allowedOrigins.kind = "undefined" \/ ~ArrayIsArray(opts.allowedOrigins)
        \/ Len(opts.allowedOrigins.items) = 0

----------------------------------------------------------------------------
(* The inputs of the callback page *)

CallbackUrl == "https://app.example/callback"

CbOptions(allowedOrigins, autoCloseOpt, autoCloseDelay, redirectUrl) ==
    [allowedOrigins |-> allowedOrigins, autoClose |-> autoCloseOpt,
     autoCloseDelay |-> autoCloseDelay, redirectUrl |-> redirectUrl]
BaseCbOptions == CbOptions(Arr(<<SelfOrigin>>), Undefined, NumUndefined, Undefined)

CbAllowedInputs ==
    {ArrUndefined, Arr(<<>>), Arr(<<SelfOrigin>>), Arr(<<Wildcard>>),
     Arr(<<SelfOrigin, PartnerOrigin>>), Arr(<<SelfOrigin, Wildcard>>),
     Arr(<<"partner.example", SelfOrigin>>)}
AutoCloseInputs == {Undefined, "true", "false"}
RedirectUrlInputs == {Undefined, AppUrl}
DelayInputs == {NumUndefined, Num("finite", 0), Num("finite", 0 - 5), Num("NaN", 0)}

CbOptionInputs ==
    {[BaseCbOptions EXCEPT !.allowedOrigins = a, !.redirectUrl = r] :
        a \in CbAllowedInputs, r \in RedirectUrlInputs}
    \cup {[BaseCbOptions EXCEPT !.autoClose = a, !.redirectUrl = r] :
        a \in AutoCloseInputs, r \in RedirectUrlInputs}
    \cup {[BaseCbOptions EXCEPT !.autoCloseDelay = d] : d \in DelayInputs}

Params(code, state, error, desc) ==
    [code |-> code, state |-> state, error |-> error, error_description |-> desc]
NoParams == Params(NullS, NullS, NullS, NullS)
Url(search, hash) == [search |-> search, hash |-> hash]

\* one character more than a parameter may keep
LongValue == [i \in 1..(MAX_PARAM_LENGTH + 1) |-> 97]

\* a stripped character in front of a value that is too long without it
DirtyLongValue == <<60>> \o LongValue

CodeValues ==
    {NullS, S(<<97, 98, 99, 49, 50, 51>>), S(<<60, 62>>), S(<<97, 60, 98>>), S(LongValue),
     S(DirtyLongValue)}
\* xyz, x'y
StateValues == {NullS, S(<<120, 121, 122>>), S(<<120, 39, 121>>)}
ErrorValues ==
    {NullS, S(<<>>), S(<<60, 62>>),
     S(<<97, 99, 99, 101, 115, 115, 95, 100, 101, 110, 105, 101, 100>>)}
\* the last one is a backtick, U, a line feed and DEL
DescValues ==
    {NullS, S(<<85, 115, 101, 114, 32, 99, 97, 110, 99, 101, 108, 108, 101, 100>>),
     S(<<96, 85, 10, 127>>)}

\* ?code=abc123&state=xyz
SuccessUrl ==
    Url(Params(S(<<97, 98, 99, 49, 50, 51>>), S(<<120, 121, 122>>), NullS, NullS), NoParams)
\* ?error=access_denied&error_description=User+cancelled
ErrorUrl ==
    Url(Params(NullS, NullS,
               S(<<97, 99, 99, 101, 115, 115, 95, 100, 101, 110, 105, 101, 100>>),
               S(<<85, 115, 101, 114, 32, 99, 97, 110, 99, 101, 108, 108, 101, 100>>)),
        NoParams)
EmptyUrl == Url(NoParams, NoParams)

\* the parameters in the query alone, in the fragment alone, and code and
\* error in both
UrlInputs ==
    {Url(Params(c, st, e, d), NoParams) :
        c \in CodeValues, st \in StateValues, e \in ErrorValues, d \in DescValues}
    \cup {Url(NoParams, Params(c, st, e, d)) :
        c \in CodeValues, st \in StateValues, e \in ErrorValues, d \in DescValues}
    \cup {Url(Params(qc, NullS, qe, NullS), Params(hc, NullS, he, NullS)) :
        qc \in {NullS, S(<<>>), S(<<113, 99, 111, 100, 101>>)},
        hc \in {NullS, S(<<104, 99, 111, 100, 101>>)},
        qe \in {NullS, S(<<>>), S(<<113, 101, 114, 114>>)},
        he \in {NullS, S(<<104, 101, 114, 114>>)}}

CbEnv(opener, bc, closing) == [opener |-> opener, bc |-> bc, close |-> closing]
Openers == {"none", "live", "closed", "isolated"}
CloseEffects == {"closes", "refused", "throws"}

CbRequest(opts, url, env) == [opts |-> opts, url |-> url, env |-> env]
NoCbRequest == CbRequest(BaseCbOptions, EmptyUrl, CbEnv("none", "undefined", "refused"))

\* every URL with the base options, and every option with three URLs
CbRequests ==
    {CbRequest(BaseCbOptions, u, CbEnv(o, b, "closes")) :
        u \in UrlInputs, o \in Openers, b \in BroadcastSupport}
    \cup {CbRequest(opts, u, CbEnv(o, b, cl)) :
        opts \in CbOptionInputs, u \in {SuccessUrl, ErrorUrl, EmptyUrl},
        o \in Openers, b \in BroadcastSupport, cl \in CloseEffects}

----------------------------------------------------------------------------
(* src/utils/security.ts: generatePKCE, generateState *)

VERIFIER_LENGTH == 128
STATE_LENGTH == 32
MAX_RANDOM_LENGTH == 1024
BYTE_VALUES == 256

\* 'ABCDEFGHIJKLMNOPQRSTUVWXYZabcdefghijklmnopqrstuvwxyz0123456789-._~'
charset ==
    [i \in 1..26 |-> 64 + i] \o [i \in 1..26 |-> 96 + i] \o [i \in 1..10 |-> 47 + i]
        \o <<45, 46, 95, 126>>

\* the environment of a call: which parts of crypto exist ("ok", "noSubtle",
\* "noRandom", "undefined"), the bytes getRandomValues writes and the bytes
\* subtle.digest answers, each given by its first byte and the step to the next
CryptoEnv(crypto, random, digest) == [crypto |-> crypto, random |-> random, digest |-> digest]
Bytes(seed, length) == [i \in 1..length |-> (seed.start + (i - 1) * seed.step) % BYTE_VALUES]

Thrown(message) == [threw |-> TRUE, message |-> message, value |-> <<>>]
Returned(value) == [threw |-> FALSE, message |-> "", value |-> value]

\* a generateRandomString that falls back to bytes of Math.random
generateRandomString_mathRandom(length, env) ==
    IF length <= 0 \/ length > MAX_RANDOM_LENGTH
    THEN Thrown("Invalid length: must be a positive integer <= 1024")
    ELSE LET randomValues ==
                 IF env.crypto \in {"undefined", "noRandom"}
                 THEN [i \in 1..length |-> (i * 37) % BYTE_VALUES]
                 ELSE Bytes(env.random, length)
         IN  Returned([i \in 1..length |-> charset[(randomValues[i] % Len(charset)) + 1]])

generateRandomString(length, env) ==
    IF length <= 0 \/ length > MAX_RANDOM_LENGTH
    THEN Thrown("Invalid length: must be a positive integer <= 1024")
    ELSE IF env.crypto \in {"undefined", "noRandom"}
    THEN Thrown("crypto.getRandomValues is not available in this environment")
    ELSE LET randomValues == Bytes(env.random, length)
         IN  Returned([i \in 1..length |-> charset[(randomValues[i] % Len(charset)) + 1]])

\* btoa: the base64 alphabet A-Z a-z 0-9 + /
btoaChar(sextet) ==
    IF sextet < 26 THEN 65 + sextet
    ELSE IF sextet < 52 THEN 97 + (sextet - 26)
    ELSE IF sextet < 62 THEN 48 + (sextet - 52)
    ELSE IF sextet = 62 THEN 43
    ELSE 47

\* btoa of a binary string: three bytes give four characters, the last group
\* is padded with '='
RECURSIVE btoa(_)
btoa(bytes) ==
    IF Len(bytes) = 0 THEN <<>>
    ELSE IF Len(bytes) = 1
    THEN <<btoaChar(bytes[1] \div 4), btoaChar((bytes[1] % 4) * 16), 61, 61>>
    ELSE IF Len(bytes) = 2
    THEN <<btoaChar(bytes[1] \div 4),
           btoaChar((bytes[1] % 4) * 16 + bytes[2] \div 16),
           btoaChar((bytes[2] % 16) * 4), 61>>
    ELSE <<btoaChar(bytes[1] \div 4),
           btoaChar((bytes[1] % 4) * 16 + bytes[2] \div 16),
           btoaChar((bytes[2] % 16) * 4 + bytes[3] \div 64),
           btoaChar(bytes[3] % 64)>> \o btoa(SubSeq(bytes, 4, Len(bytes)))

\* String.replace of one character by a string
Replace(chars, from, to) ==
    LET RECURSIVE Go(_)
        Go(i) == IF i > Len(chars) THEN <<>>
                 ELSE (IF chars[i] = from THEN to ELSE <<chars[i]>>) \o Go(i + 1)
    IN  Go(1)

\* a base64URLEncode that keeps the padding
base64URLEncode_keepsPadding(buffer) ==
    Replace(Replace(btoa(buffer), 43, <<45>>), 47, <<95>>)

base64URLEncode(buffer) ==
    Replace(Replace(Replace(btoa(buffer), 43, <<45>>), 47, <<95>>), 61, <<>>)

\* sha256(plain): the digest call made and the buffer the environment answers
sha256(plain, env) ==
    IF env.crypto \in {"undefined", "noSubtle"}
    THEN Thrown("crypto.subtle is not available in this environment")
    ELSE Returned([algorithm |-> "SHA-256", data |-> plain,
                   buffer |-> Bytes(env.digest, 32)])

NoDigest == [algorithm |-> "", data |-> <<>>, buffer |-> <<>>]
NoChallenge == [codeVerifier |-> <<>>, codeChallenge |-> <<>>, codeChallengeMethod |-> ""]
NoSeed == [start |-> 0, step |-> 0]

PkceCall(call, env, status, message, value, token, digest) ==
    [call |-> call, env |-> env, status |-> status, message |-> message,
     value |-> value, token |-> token, digest |-> digest]
NoPkce ==
    PkceCall("none", CryptoEnv("ok", NoSeed, NoSeed), "none", "", NoChallenge, <<>>, NoDigest)

generatePKCE(env) ==
    LET codeVerifier == generateRandomString(VERIFIER_LENGTH, env)
    IN  IF codeVerifier.threw
        THEN PkceCall("generatePKCE", env, "threw", codeVerifier.message, NoChallenge, <<>>,
                      NoDigest)
        ELSE LET hashed == sha256(codeVerifier.value, env)
             IN  IF hashed.threw
                 THEN PkceCall("generatePKCE", env, "threw", hashed.message, NoChallenge,
                               <<>>, NoDigest)
                 ELSE PkceCall("generatePKCE", env, "returned", "",
                               [codeVerifier |-> codeVerifier.value,
                                codeChallenge |-> base64URLEncode(hashed.value.buffer),
                                codeChallengeMethod |-> "S256"],
                               <<>>, hashed.value)

\* a generateState that asks for 16 characters
generateState_short(env) ==
    LET token == generateRandomString(16, env)
    IN  IF token.threw
        THEN PkceCall("generateState", env, "threw", token.message, NoChallenge, <<>>, NoDigest)
        ELSE PkceCall("generateState", env, "returned", "", NoChallenge, token.value, NoDigest)

generateState(env) ==
    LET token == generateRandomString(STATE_LENGTH, env)
    IN  IF token.threw
        THEN PkceCall("generateState", env, "threw", token.message, NoChallenge, <<>>, NoDigest)
        ELSE PkceCall("generateState", env, "returned", "", NoChallenge, token.value, NoDigest)

\* the environments: random bytes around the multiples of 66 and at both
\* ends of a byte, digests that give every kind of base64 character
RandomSeeds ==
    {[start |-> a, step |-> b] : a \in {0, 57, 58, 65, 66, 131, 197, 198, 255},
                                 b \in {0, 1, 7}}
DigestSeeds == {[start |-> a, step |-> b] : a \in {0, 62, 251, 255}, b \in {0, 1, 17}}
CryptoSupport == {"ok", "noSubtle", "noRandom", "undefined"}
CryptoEnvs ==
    {CryptoEnv("ok", r, d) : r \in RandomSeeds, d \in DigestSeeds}
        \cup {CryptoEnv(c, r, [start |-> 251, step |-> 17]) :
                 c \in CryptoSupport, r \in RandomSeeds}

----------------------------------------------------------------------------
(* The inputs of the utility functions called on their own *)

\* longest string given to sanitizeParam, next to the two long values
MaxLen == 3

\* a, b, < and DEL
SanAlphabet == {97, 98, 60, 127}

RECURSIVE StringsUpTo(_)
StringsUpTo(n) ==
    IF n = 0 THEN {<<>>}
    ELSE LET shorter == StringsUpTo(n - 1)
         IN  shorter \cup {Append(w, ch) : w \in {x \in shorter : Len(x) = n - 1},
                                           ch \in SanAlphabet}

SanInput(value) == [given |-> TRUE, value |-> value]
NoSanInput == [given |-> FALSE, value |-> NullS]
SanInputs ==
    {SanInput(NullS), SanInput(S(LongValue)), SanInput(S(DirtyLongValue))}
        \cup {SanInput(S(w)) : w \in StringsUpTo(MaxLen)}

VoInput(origin, allowedOrigins) ==
    [given |-> TRUE, origin |-> origin, allowedOrigins |-> allowedOrigins]
NoVoInput == [given |-> FALSE, origin |-> "", allowedOrigins |-> ArrUndefined]
NoVoOutput == [returned |-> FALSE, value |-> FALSE]

VoOrigins == {"", SelfOrigin, PartnerOrigin, EvilOrigin, OpaqueOrigin, "partner.example", Wildcard}
VoAllowlists ==
    {ArrUndefined, Arr(<<>>), Arr(<<SelfOrigin>>), Arr(<<Wildcard>>),
     Arr(<<SelfOrigin, PartnerOrigin>>), Arr(<<PartnerOrigin, Wildcard>>),
     Arr(<<SelfOrigin, OpaqueOrigin>>), Arr(<<"partner.example", SelfOrigin>>),
     Arr(<<"">>), [kind |-> "string", items |-> <<>>]}
VoInputs == {VoInput(o, a) : o \in VoOrigins, a \in VoAllowlists}

----------------------------------------------------------------------------
(* The coordinator as a state machine *)

\* the coordinator and the callback page after construction
\* new AuthPopup(): the fields as the class declares them, and the browser
\* objects the instance will own
NewAuthPopup ==
    [phase |-> "idle", options |-> NoOptions, popup |-> Null,
     broadcastChannel |-> Null, messageHandler |-> NoHandler,
     checkInterval |-> Null, successHandler |-> Null, errorHandler |-> Null,
     timeoutId |-> Null, isSettled |-> FALSE, promise |-> Pending, timers |-> {},
     windowListener |-> FALSE, channelState |-> "none", win |-> NoWindow,
     location |-> AppUrl, calls |-> 0, armed |-> 0, threw |-> FALSE]

\* heard: the instances that were pending with a listener for the event
PairEvent(kind, origin, msg, heard) ==
    [kind |-> kind, origin |-> origin, msg |-> msg, heard |-> heard]
NoPairEvent == PairEvent("none", Undefined, NonObjectMsg, {})

\* inst: the two instances, in the order of their open() calls; ua, bc: the
\* browser of the page; shared: both instances hold the one window named
\* 'auth-popup'
NoPair ==
    [inst |-> <<NewAuthPopup, NewAuthPopup>>, ua |-> "desktop", bc |-> "ok",
     shared |-> FALSE, lastEvent |-> NoPairEvent]

ProgramInit ==
    /\ phase = "idle"
    /\ options = NoOptions
    /\ popup = Null
    /\ broadcastChannel = Null
    /\ messageHandler = NoHandler
    /\ checkInterval = Null
    /\ successHandler = Null
    /\ errorHandler = Null
    /\ timeoutId = Null
    /\ isSettled = FALSE
    /\ promise = Pending
    /\ timers = {}
    /\ windowListener = FALSE
    /\ channelState = "none"
    /\ win = NoWindow
    /\ location = AppUrl
    /\ lastEvent = NoEvent
    /\ firstTerminal = NoEvent
    /\ settleCalls = 0
    /\ timeoutsSet = 0
    /\ cbPhase = "idle"
    /\ cbRequest = NoCbRequest
    /\ cbResult = NoCbResult
    /\ cbBroadcasts = <<>>
    /\ cbPosts = <<>>
    /\ cbWarnings = {}
    /\ cbTimer = NoTimer
    /\ cbPage = [closed |-> FALSE, location |-> CallbackUrl, closeCalls |-> 0]
    /\ listeners = <<>>
    /\ pkce = NoPkce

Init ==
    /\ ProgramInit
    /\ sanInput = NoSanInput
    /\ sanOutput = <<>>
    /\ voInput = NoVoInput
    /\ voOutput = NoVoOutput
    /\ pair = NoPair

\* AuthPopup.open(options): authorize runs to its return or throw in one turn
Open ==
    /\ phase = "idle"
    /\ \E opts \in OptionInputs, ua \in UserAgents, h \in HandleInputs,
          bc \in BroadcastSupport :
          LET c == authorize(Coord, opts, ua, h, bc)
          IN  Apply(c) /\ History(c, Event("open", Undefined, NonObjectMsg,
                                           Request(opts, ua, h, bc)))

\* a 'message' event is dispatched on the parent window and the listener runs
WindowMessage ==
    /\ phase = "waiting"
    /\ windowListener
    /\ \E origin \in Origins, msg \in Messages :
          LET c == MessageHandler(Coord, origin, msg)
          IN  Apply(c) /\ History(c, Event("window", origin, msg, NoRequest))

\* a 'message' event is dispatched on the parent window after the listener
\* was removed: no code of the coordinator runs
WindowMessageUnheard ==
    /\ phase = "waiting"
    /\ ~windowListener
    /\ Apply(Coord) /\ History(Coord, Event("window-unheard", Undefined, NonObjectMsg, NoRequest))

\* a page of the parent's own origin posts on the shared channel name (the
\* browser delivers a broadcast to pages of the sender's origin only) and
\* the coordinator's onmessage runs
BroadcastMessage ==
    /\ phase = "waiting"
    /\ channelState = "listening"
    /\ \E msg \in Messages :
          LET c == BroadcastOnMessage(Coord, msg)
          IN  Apply(c) /\ History(c, Event("broadcast", SelfOrigin, msg, NoRequest))

\* a page posts on the shared channel name while the coordinator has no open
\* channel (none was created, or it was closed): no code of the coordinator runs
BroadcastMessageUnheard ==
    /\ phase = "waiting"
    /\ channelState # "listening"
    /\ Apply(Coord) /\ History(Coord, Event("broadcast-unheard", Undefined, NonObjectMsg, NoRequest))

\* the liveness poll ticks
PollTick ==
    /\ "interval" \in timers
    /\ LET c == CheckIntervalTick(Coord)
       IN  Apply(c) /\ History(c, Event("poll", Undefined, NonObjectMsg, NoRequest))

\* the deadline timer fires, once
Timeout ==
    /\ "timeout" \in timers
    /\ LET c == TimeoutFires([Coord EXCEPT !.timers = @ \ {"timeout"}])
       IN  Apply(c) /\ History(c, Event("timeout", Undefined, NonObjectMsg, NoRequest))

\* the user, or the callback page, closes the agent window
PopupCloses ==
    /\ phase = "waiting"
    /\ win.exists /\ ~win.closed
    /\ win' = [win EXCEPT !.closed = TRUE]
    /\ lastEvent' = Event("closed", Undefined, NonObjectMsg, NoRequest)
    /\ UNCHANGED <<phase, options, popup, broadcastChannel, messageHandler, checkInterval,
                   successHandler, errorHandler, timeoutId, isSettled, promise, timers,
                   windowListener, channelState, location, firstTerminal, settleCalls,
                   timeoutsSet>>
    /\ UNCHANGED cbVars
    /\ UNCHANGED utilVars
    /\ UNCHANGED listeners
    /\ UNCHANGED pkce
    /\ UNCHANGED pair

\* the agent window navigates to or from a page whose isolation policy makes
\* reading popup.closed raise
PopupNavigates ==
    /\ phase = "waiting"
    /\ win.exists /\ ~win.closed
    /\ win' = [win EXCEPT !.isolated = ~@]
    /\ lastEvent' = Event("navigated", Undefined, NonObjectMsg, NoRequest)
    /\ UNCHANGED <<phase, options, popup, broadcastChannel, messageHandler, checkInterval,
                   successHandler, errorHandler, timeoutId, isSettled, promise, timers,
                   windowListener, channelState, location, firstTerminal, settleCalls,
                   timeoutsSet>>
    /\ UNCHANGED cbVars
    /\ UNCHANGED utilVars
    /\ UNCHANGED listeners
    /\ UNCHANGED pkce
    /\ UNCHANGED pair

Next ==
    \/ Open
    \/ WindowMessage
    \/ BroadcastMessage
    \/ WindowMessageUnheard
    \/ BroadcastMessageUnheard
    \/ PollTick
    \/ Timeout
    \/ PopupCloses
    \/ PopupNavigates

Spec == Init /\ [][Next]_vars

----------------------------------------------------------------------------
(* The callback page as a state machine *)

ApplyCallback(k) ==
    /\ cbResult' = k.result
    /\ cbBroadcasts' = k.broadcasts
    /\ cbPosts' = k.posts
    /\ cbWarnings' = k.warnings
    /\ cbTimer' = k.timer
    /\ cbPage' = k.page

\* the setTimeout callback of autoClose
autoCloseTimer(k, opts, env) ==
    IF k.timer.isRedirectMode /\ Truthy(opts.redirectUrl)
    THEN [k EXCEPT !.page.location = opts.redirectUrl]
    ELSE [k EXCEPT !.page.closeCalls = @ + 1,
                   !.page.closed = @ \/ env.close = "closes"]

\* the callback page loads and calls handleCallback(options): the constructor
\* and process() run to the return or the throw in one turn
HandleCallback ==
    /\ cbPhase = "idle"
    /\ \E req \in CbRequests :
          /\ cbRequest' = req
          /\ IF constructorThrows(req.opts)
             THEN /\ cbPhase' = "threw"
                  /\ UNCHANGED <<cbResult, cbBroadcasts, cbPosts, cbWarnings, cbTimer, cbPage>>
             ELSE LET k == process(Callback, req.opts, req.url, req.env)
                  IN  /\ cbPhase' = IF k.threw THEN "threw" ELSE "done"
                      /\ ApplyCallback(k)
    /\ UNCHANGED <<coordVars, lastEvent, firstTerminal, settleCalls,
                   timeoutsSet>>
    /\ UNCHANGED utilVars
    /\ UNCHANGED listeners
    /\ UNCHANGED pkce
    /\ UNCHANGED pair

\* the timer of autoClose fires
AutoCloseTimerFires ==
    /\ cbTimer.pending
    /\ ApplyCallback(autoCloseTimer([Callback EXCEPT !.timer.pending = FALSE],
                                    cbRequest.opts, cbRequest.env))
    /\ UNCHANGED <<cbPhase, cbRequest>>
    /\ UNCHANGED <<coordVars, lastEvent, firstTerminal, settleCalls,
                   timeoutsSet>>
    /\ UNCHANGED utilVars
    /\ UNCHANGED listeners
    /\ UNCHANGED pkce
    /\ UNCHANGED pair

CallbackNext == HandleCallback \/ AutoCloseTimerFires

CallbackSpec == Init /\ [][CallbackNext]_vars

----------------------------------------------------------------------------
(* The utility functions called on their own *)

\* a caller holds one string, or one origin and one allowlist
UtilInit ==
    /\ ProgramInit
    /\ sanOutput = <<>>
    /\ voOutput = NoVoOutput
    /\ pair = NoPair
    /\ \/ sanInput \in SanInputs /\ voInput = NoVoInput
       \/ sanInput = NoSanInput /\ voInput \in VoInputs

\* sanitizeParam is applied to the string, then to its own result
ApplySanitizeParam ==
    /\ sanInput.given
    /\ Len(sanOutput) < 2
    /\ sanOutput' = Append(sanOutput,
                           sanitizeParam(IF Len(sanOutput) = 0 THEN sanInput.value
                                         ELSE sanOutput[Len(sanOutput)]))
    /\ UNCHANGED <<sanInput, voInput, voOutput>>
    /\ UNCHANGED <<coordVars, lastEvent, firstTerminal, settleCalls, timeoutsSet, cbVars, listeners, pkce, pair>>

ApplyValidateOrigin ==
    /\ voInput.given
    /\ ~voOutput.returned
    /\ voOutput' = [returned |-> TRUE,
                    value |-> validateOrigin(voInput.origin, voInput.allowedOrigins)]
    /\ UNCHANGED <<sanInput, sanOutput, voInput>>
    /\ UNCHANGED <<coordVars, lastEvent, firstTerminal, settleCalls, timeoutsSet, cbVars, listeners, pkce, pair>>

UtilNext == ApplySanitizeParam \/ ApplyValidateOrigin

UtilSpec == UtilInit /\ [][UtilNext]_vars

----------------------------------------------------------------------------
(* AuthPopup.listen(), as CHANGELOG 1.2.0 and the specification describe it: *)
(* its code is not part of src/auth-popup.ts                                *)

\* number of listen() calls
MaxListens == 3

\* one listen() call: its window 'message' listener, its broadcast channel,
\* its deadline timer and its promise
Listener(allowedOrigins) ==
    [messageListener |-> TRUE, channel |-> TRUE, timer |-> TRUE,
     status |-> "pending", value |-> NoData, allowedOrigins |-> allowedOrigins]

Live(l) == l.messageListener \/ l.channel \/ l.timer

release(l) == [l EXCEPT !.messageListener = FALSE, !.channel = FALSE, !.timer = FALSE]

\* the listener is cancelled: everything is released and its promise gets no
\* result
cancel(l) == IF l.status = "pending" THEN [release(l) EXCEPT !.status = "cancelled"] ELSE l

settle(l, status, value) == [release(l) EXCEPT !.status = status, !.value = value]

\* a listen() that arms next to the listener before it
listen_keepsPrevious(ls, allowedOrigins) == Append(ls, Listener(allowedOrigins))

\* listen(options): the previous listener is cancelled, then the new one arms
listen(ls, allowedOrigins) ==
    Append([i \in 1..Len(ls) |-> cancel(ls[i])], Listener(allowedOrigins))

\* a message reaches one listener
deliver(l, origin, data) ==
    IF l.status # "pending" THEN l
    ELSE IF ~validateOrigin(origin, l.allowedOrigins) THEN l
    ELSE IF ~data.isObject THEN l
    ELSE IF data.type = "auth-success" /\ data.data.present /\ Truthy(data.data.code)
    THEN settle(l, "resolved", data.data)
    ELSE IF data.type = "auth-error" THEN settle(l, "rejected", data.data)
    ELSE l

ListenAllowedInputs == {Arr(<<SelfOrigin>>), Arr(<<PartnerOrigin>>), Arr(<<Wildcard>>)}

ListenMessages ==
    {Msg("auth-success", Data("abc123", "xyz", Undefined, Undefined)),
     Msg("auth-success", Data("", "xyz", Undefined, Undefined)),
     Msg("auth-error", Data(Undefined, Undefined, "access_denied", "User cancelled")),
     NonObjectMsg}

Listen ==
    /\ Len(listeners) < MaxListens
    /\ \E a \in ListenAllowedInputs : listeners' = listen(listeners, a)
    /\ UNCHANGED <<coordVars, lastEvent, firstTerminal, settleCalls, timeoutsSet, cbVars, utilVars, pkce, pair>>

\* a 'message' event on the window runs every registered listener
ListenWindowMessage ==
    /\ \E i \in 1..Len(listeners) : listeners[i].messageListener
    /\ \E origin \in {SelfOrigin, PartnerOrigin, EvilOrigin}, data \in ListenMessages :
          listeners' = [i \in 1..Len(listeners) |->
                           IF listeners[i].messageListener
                           THEN deliver(listeners[i], origin, data)
                           ELSE listeners[i]]
    /\ UNCHANGED <<coordVars, lastEvent, firstTerminal, settleCalls, timeoutsSet, cbVars, utilVars, pkce, pair>>

\* a message on the shared channel reaches every open channel object; its
\* sender is a page of the parent's origin
ListenBroadcastMessage ==
    /\ \E i \in 1..Len(listeners) : listeners[i].channel
    /\ \E data \in ListenMessages :
          listeners' = [i \in 1..Len(listeners) |->
                           IF listeners[i].channel
                           THEN deliver(listeners[i], SelfOrigin, data)
                           ELSE listeners[i]]
    /\ UNCHANGED <<coordVars, lastEvent, firstTerminal, settleCalls, timeoutsSet, cbVars, utilVars, pkce, pair>>

\* the deadline timer of a listener fires
ListenTimeout ==
    /\ \E i \in 1..Len(listeners) :
          /\ listeners[i].timer
          /\ listeners' = [listeners EXCEPT ![i] =
                               IF @.status = "pending" THEN settle(@, "rejected", NoData)
                               ELSE [@ EXCEPT !.timer = FALSE]]
    /\ UNCHANGED <<coordVars, lastEvent, firstTerminal, settleCalls, timeoutsSet, cbVars, utilVars, pkce, pair>>

\* the caller's AbortSignal aborts a pending listener
ListenAbort ==
    /\ \E i \in 1..Len(listeners) :
          /\ listeners[i].status = "pending"
          /\ listeners' = [listeners EXCEPT ![i] = cancel(@)]
    /\ UNCHANGED <<coordVars, lastEvent, firstTerminal, settleCalls, timeoutsSet, cbVars, utilVars, pkce, pair>>

ListenNext ==
    \/ Listen
    \/ ListenWindowMessage
    \/ ListenBroadcastMessage
    \/ ListenTimeout
    \/ ListenAbort

ListenSpec == Init /\ [][ListenNext]_vars

----------------------------------------------------------------------------
(* generatePKCE() and generateState() called by the application *)

GeneratePKCE ==
    /\ pkce.call = "none"
    /\ \E env \in CryptoEnvs : pkce' = generatePKCE(env)
    /\ UNCHANGED <<coordVars, lastEvent, firstTerminal, settleCalls, timeoutsSet, cbVars, utilVars,
                   listeners, pair>>

GenerateState ==
    /\ pkce.call = "none"
    /\ \E env \in CryptoEnvs : pkce' = generateState(env)
    /\ UNCHANGED <<coordVars, lastEvent, firstTerminal, settleCalls, timeoutsSet, cbVars, utilVars,
                   listeners, pair>>

PkceNext == GeneratePKCE \/ GenerateState

PkceSpec == Init /\ [][PkceNext]_vars

\* the browser fires a timer that stays armed
FairSpec == Spec /\ WF_vars(Timeout) /\ WF_vars(PollTick)

----------------------------------------------------------------------------
(* What the claims speak of *)

\* the allowlist a request is armed with
EffectiveAllowed(opts) ==
    IF opts.allowedOrigins.kind = "undefined" THEN <<SelfOrigin>>
    ELSE opts.allowedOrigins.items

\* origin is in the allowlist, or the allowlist holds the wildcard
InAllowlist(origin, allowed) == Includes(allowed, origin) \/ Includes(allowed, Wildcard)

BadNumber(x) == x.kind # "undefined" /\ ~(x.kind = "finite" /\ x.val > 0)
BadAllowlist(a) == a.kind # "undefined" /\ ~(a.kind = "array" /\ Len(a.items) > 0)

\* the request shape the specification calls invalid
ConfigInvalid(o) ==
    \/ ~o.isObject
    \/ o.authUrl.kind # "string"
    \/ o.authUrl.text \notin AbsoluteURLs
    \/ BadNumber(o.width) \/ BadNumber(o.height) \/ BadNumber(o.timeout)
    \/ BadAllowlist(o.allowedOrigins)

\* the window handle is null or detected as blocked
HandleBlocked(h) == h.isNull \/ h.closed = "true" \/ (h.closed = "false" /\ h.dims = "zero")

\* nothing was armed: no listener, no channel, no timer
NothingArmed ==
    /\ ~windowListener /\ ~messageHandler.installed
    /\ channelState = "none" /\ broadcastChannel = Null
    /\ timers = {} /\ timeoutId = Null /\ checkInterval = Null

\* the outcome a terminal event stands for
OutcomeOf(ev) ==
    IF ev.kind = "timeout" THEN Rejected(Err("Error", "Authorization timeout"))
    ELSE IF ev.kind = "poll" THEN Rejected(Err("Error", "Authorization popup was closed"))
    ELSE IF ev.msg.type = "auth-success" THEN Resolved(ev.msg.data)
    ELSE Rejected(Err("Error",
            IF Truthy(ev.msg.data.error_description) THEN ev.msg.data.error_description
            ELSE ev.msg.data.error))

Armed == phase = "waiting"
Settled == Armed /\ (isSettled \/ promise.status # "pending")

----------------------------------------------------------------------------
(* C1 *)

\* C1: for an armed request the promise is resolved or rejected at most once,
\* a decided promise holds the outcome of the first terminal event, and no
\* later step (message, poll tick, timer) changes a decided promise.
C1_SettlesOnce ==
    /\ [](Armed => settleCalls <= 1)
    /\ [](Armed /\ promise.status # "pending" => promise = OutcomeOf(firstTerminal))
    /\ [][Armed /\ promise.status # "pending" => promise' = promise]_vars

\* a message is dispatched after a success message has resolved the promise
C1_Witness ==
    /\ Armed /\ promise.status = "resolved"
    /\ firstTerminal.kind = "window"
    /\ lastEvent.kind \in {"window-unheard", "broadcast-unheard"}

(* C2 *)

\* C2: a step that handles a window message whose origin is not in an
\* allowlist without the wildcard leaves the request, its timers, listener,
\* channel and popup handle as they were.
C2_UntrustedWindowMessageIsNoOp ==
    [][(/\ Armed
        /\ lastEvent'.kind = "window"
        /\ ~InAllowlist(lastEvent'.origin, EffectiveAllowed(options)))
       => UNCHANGED coordVars]_vars

\* a pending request has just handled a well-formed success message from an
\* origin outside its allowlist
C2_Witness ==
    /\ Armed /\ ~isSettled /\ promise.status = "pending"
    /\ lastEvent.kind = "window"
    /\ lastEvent.origin = EvilOrigin
    /\ ~InAllowlist(lastEvent.origin, EffectiveAllowed(options))
    /\ lastEvent.msg.type = "auth-success" /\ Truthy(lastEvent.msg.data.code)

(* C3 *)

\* C3: a broadcast message settles the request only if its sender origin is
\* in the allowlist.
C3_BroadcastOriginChecked ==
    Armed /\ firstTerminal.kind = "broadcast"
        => InAllowlist(firstTerminal.origin, EffectiveAllowed(options))

(* C4 *)

\* C4: when the deadline is the first terminal event of an armed request,
\* the promise is rejected with the timeout failure and the agent window is
\* closed, whatever forceClosePopup is.
C4_TimeoutRejectsAndCloses ==
    Armed /\ firstTerminal.kind = "timeout"
        => /\ promise = Rejected(Err("Error", "Authorization timeout"))
           /\ win.closed

(* C5 *)

\* C5: every armed request eventually has its promise resolved or rejected.
C5_ArmedEventuallySettles == Armed ~> (promise.status # "pending")

(* C6 *)

\* C6: in every state where the request is settled the deadline timer and
\* the liveness poll are cancelled, the message listener is detached and the
\* broadcast channel is closed.
C6_SettledMeansTornDown ==
    Settled
        => /\ "timeout" \notin timers /\ timeoutId = Null
           /\ "interval" \notin timers /\ checkInterval = Null
           /\ ~windowListener /\ ~messageHandler.installed
           /\ channelState \in {"none", "closed"} /\ broadcastChannel = Null

\* the request was settled by a message on a broadcast channel it had opened
C6_Witness ==
    /\ Settled /\ promise.status = "resolved"
    /\ firstTerminal.kind = "broadcast"
    /\ channelState = "closed"

(* C7 *)

ConfigMessages ==
    {"options is required", "authUrl is required and must be a string",
     "Invalid width", "Invalid height", "Invalid timeout",
     "allowedOrigins must be a non-empty array"}
    \cup {"Invalid authUrl format: " \o u.text : u \in AuthUrlInputs}

\* C7: open() with an invalid request is rejected with the error of the
\* failed check and has no side effect: no window, no navigation, nothing armed.
C7_InvalidConfigNoSideEffect ==
    lastEvent.kind = "open" /\ ConfigInvalid(lastEvent.req.opts)
        => /\ phase = "thrown"
           /\ promise.status = "rejected"
           /\ promise.reason.message \in ConfigMessages
           /\ ~win.exists /\ popup = Null
           /\ location = AppUrl
           /\ NothingArmed

\* open() was called with an empty allowlist while window.open would have
\* handed back a usable window
C7_Witness ==
    /\ lastEvent.kind = "open"
    /\ lastEvent.req.opts.allowedOrigins = Arr(<<>>)
    /\ ~HandleBlocked(lastEvent.req.h) /\ lastEvent.req.h.closed = "false"
    /\ phase = "thrown"

(* C8 *)

\* C8: with the window blocked and redirectFallback false, open() fails with
\* a PopupBlockedError carrying the authorization URL, the page is not
\* navigated and nothing is armed.
C8_BlockedCarriesAuthUrl ==
    (/\ lastEvent.kind = "open"
     /\ ~ConfigInvalid(lastEvent.req.opts)
     /\ HandleBlocked(lastEvent.req.h)
     /\ lastEvent.req.opts.redirectFallback = "false")
        => /\ promise.status = "rejected"
           /\ promise.reason.name = "PopupBlockedError"
           /\ promise.reason.authUrl = lastEvent.req.opts.authUrl.text
           /\ location = AppUrl
           /\ NothingArmed

(* C9 *)

\* C9: with the window blocked and redirectFallback enabled, the page is
\* navigated to the authorization URL, open() rejects, and nothing is armed.
C9_BlockedRedirects ==
    (/\ lastEvent.kind = "open"
     /\ ~ConfigInvalid(lastEvent.req.opts)
     /\ HandleBlocked(lastEvent.req.h)
     /\ lastEvent.req.opts.redirectFallback # "false")
        => /\ location = lastEvent.req.opts.authUrl.text
           /\ phase = "thrown"
           /\ promise.status = "rejected"
           /\ NothingArmed

\* open() with redirectFallback left at its default got a null handle
C9_Witness ==
    /\ lastEvent.kind = "open"
    /\ ~ConfigInvalid(lastEvent.req.opts)
    /\ lastEvent.req.h.isNull
    /\ lastEvent.req.opts.redirectFallback = Undefined
    /\ location = AuthUrlOk

(* C10 *)

\* the parameter process() works on: the query's value, else the fragment's,
\* sanitized
Extracted(url, key) == sanitizeParam(OrElse(url.search[key], url.hash[key]))

SentMessages ==
    {cbBroadcasts[i] : i \in 1..Len(cbBroadcasts)}
        \cup {cbPosts[i].message : i \in 1..Len(cbPosts)}

\* C10: the callback is classified on the sanitized parameters, a parameter
\* being present when it is non-empty after sanitization: an error (also
\* next to a code) gives {success: false, data: {error, error_description?}},
\* else a code gives {success: true, data: {code, state?}}, else the result
\* is the invalid_callback failure; every message sent has the kind and the
\* data of the result.
C10_Classification ==
    cbPhase = "done" =>
        LET code == Extracted(cbRequest.url, "code")
            state == Extracted(cbRequest.url, "state")
            error == Extracted(cbRequest.url, "error")
            desc == Extracted(cbRequest.url, "error_description")
        IN  /\ cbResult.returned
            /\ TruthyS(error) =>
                 cbResult = CbReturn(FALSE, CbData(NullS, NullS, error,
                                IF TruthyS(desc) THEN desc ELSE NullS))
            /\ ~TruthyS(error) /\ TruthyS(code) =>
                 cbResult = CbReturn(TRUE, CbData(code,
                                IF TruthyS(state) THEN state ELSE NullS, NullS, NullS))
            /\ ~TruthyS(error) /\ ~TruthyS(code) =>
                 /\ ~cbResult.success
                 /\ cbResult.data.error = INVALID_CALLBACK
            /\ \A m \in SentMessages :
                 /\ m.type = (IF cbResult.success THEN "auth-success" ELSE "auth-error")
                 /\ m.data = cbResult.data

\* a callback URL carrying both an error and a code was processed and its
\* message went out on both channels
C10_Witness ==
    /\ cbPhase = "done"
    /\ TruthyS(Extracted(cbRequest.url, "error"))
    /\ TruthyS(Extracted(cbRequest.url, "code"))
    /\ ~cbResult.success
    /\ Len(cbBroadcasts) = 1 /\ Len(cbPosts) = 1

(* C11 *)

\* C11: handleCallback never throws: for every options object, a missing or
\* an empty allowedOrigins included, and every callback URL the call returns,
\* and a call that has no code to report returns {success: false, data}.
C11_NeverThrows ==
    cbPhase # "idle" =>
        /\ cbPhase = "done"
        /\ cbResult.returned
        /\ ~TruthyS(Extracted(cbRequest.url, "code")) => ~cbResult.success

(* C12 *)

\* < > " ' backtick, the C0 control characters and DEL
ForbiddenCodes == {60, 62, 34, 39, 96, 127} \cup (0..31)

Clean(v) ==
    v.isNull \/ (/\ \A i \in 1..Len(v.chars) : v.chars[i] \notin ForbiddenCodes
                 /\ Len(v.chars) <= 2048)

CleanData(d) ==
    Clean(d.code) /\ Clean(d.state) /\ Clean(d.error) /\ Clean(d.error_description)

\* C12: every string handleCallback takes from the callback URL is sanitized
\* before use: the code, state, error and error_description of the returned
\* data and of every message sent contain none of < > " ' backtick, no C0
\* control character and no DEL, and are at most 2048 characters long.
C12_ExtractedValuesSanitized ==
    cbPhase = "done" =>
        /\ CleanData(cbResult.data)
        /\ \A m \in SentMessages : CleanData(m.data)

\* a code of "<" and 2049 letters came back as its first 2048 letters, and
\* went out on both channels
C12_Witness ==
    /\ cbPhase = "done"
    /\ cbRequest.url.search.code = S(DirtyLongValue)
    /\ cbResult.success
    /\ cbResult.data.code = S(SubSeq(LongValue, 1, 2048))
    /\ Len(cbBroadcasts) = 1 /\ Len(cbPosts) = 1

(* C13 *)

\* C13: sanitization is idempotent: sanitizeParam(sanitizeParam(x)) equals
\* sanitizeParam(x) for every string x, the strings made only of stripped
\* characters and the empty string included.
C13_SanitizeIdempotent ==
    Len(sanOutput) = 2 => sanOutput[2] = sanOutput[1]

(* C14 *)

\* the value of a key that the query string has, else the fragment's,
\* sanitized
QueryFirst(url, key) ==
    sanitizeParam(IF ~url.search[key].isNull THEN url.search[key] ELSE url.hash[key])

\* the result of classifying four sanitized parameters
Classified(code, state, error, desc) ==
    IF TruthyS(error)
    THEN CbReturn(FALSE, CbData(NullS, NullS, error, IF TruthyS(desc) THEN desc ELSE NullS))
    ELSE IF TruthyS(code)
    THEN CbReturn(TRUE, CbData(code, IF TruthyS(state) THEN state ELSE NullS, NullS, NullS))
    ELSE CbReturn(FALSE, CbData(NullS, NullS, INVALID_CALLBACK, INVALID_CALLBACK_DESCRIPTION))

\* C14: for each of code, state, error and error_description, when the key
\* exists in both the query string and the fragment, the value handleCallback
\* uses is the query string's, whatever the two values are: the result is the
\* one classified from the query's value of every key the query has.
C14_QueryTakesPrecedence ==
    cbPhase = "done" =>
        cbResult = Classified(QueryFirst(cbRequest.url, "code"),
                              QueryFirst(cbRequest.url, "state"),
                              QueryFirst(cbRequest.url, "error"),
                              QueryFirst(cbRequest.url, "error_description"))

(* C15 *)

BroadcastSendThrew == "Failed to send via BroadcastChannel" \in cbWarnings
PostMessageThrew == "Failed to send via postMessage" \in cbWarnings

\* C15: both sends are attempted on every handleCallback call: when the
\* broadcast send throws, the postMessage to a live opener is still made;
\* when postMessage throws, the broadcast send has been made and stays made;
\* and after either exception the self-close timer is scheduled (unless
\* autoClose is false) and the classified result is returned.
C15_BothSendsAttempted ==
    cbPhase = "done" =>
        /\ BroadcastSendThrew /\ cbRequest.env.opener = "live" =>
              Len(cbPosts) = 1 \/ PostMessageThrew
        /\ PostMessageThrew /\ cbRequest.env.bc = "ok" => Len(cbBroadcasts) = 1
        /\ BroadcastSendThrew \/ PostMessageThrew =>
              /\ cbResult.returned
              /\ cbResult = Classified(Extracted(cbRequest.url, "code"),
                                       Extracted(cbRequest.url, "state"),
                                       Extracted(cbRequest.url, "error"),
                                       Extracted(cbRequest.url, "error_description"))
              /\ cbRequest.opts.autoClose # "false" => cbTimer.scheduled = 1

\* the broadcast send threw, the message still went to the live opener, the
\* timer was scheduled and the success was returned
C15_Witness ==
    /\ cbPhase = "done"
    /\ BroadcastSendThrew
    /\ cbRequest.env.opener = "live"
    /\ Len(cbPosts) = 1
    /\ cbTimer.scheduled = 1
    /\ cbResult.success

(* C16 *)

\* C16: handleCallback performs a postMessage to the opening window if and
\* only if window.opener exists and is not closed at send time; with no
\* opener or a closed opener the message goes out on the broadcast channel
\* alone.
C16_PostMessageIffLiveOpener ==
    cbPhase = "done" =>
        /\ (Len(cbPosts) = 1 \/ PostMessageThrew) <=> cbRequest.env.opener = "live"
        /\ Len(cbPosts) <= 1
        /\ cbRequest.env.opener # "live" =>
              /\ cbPosts = <<>>
              /\ cbRequest.env.bc = "ok" => Len(cbBroadcasts) = 1

\* the opener was closed: the message went out on the broadcast channel and
\* no postMessage was made
C16_Witness ==
    /\ cbPhase = "done"
    /\ cbRequest.env.opener = "closed"
    /\ Len(cbBroadcasts) = 1
    /\ cbPosts = <<>>
    /\ "No window.opener available or opener is closed" \in cbWarnings

(* C17 *)

\* C17: the target origin of the callback's postMessage is an entry of the
\* allowlist, and a non-wildcard one whenever the allowlist has one; "*" is
\* the target only when the allowlist has no other entry, and a warning is
\* emitted then.
C17_SpecificTargetOrigin ==
    cbPhase = "done" =>
        \A i \in 1..Len(cbPosts) :
            LET targetOrigin == cbPosts[i].targetOrigin
                items == cbRequest.opts.allowedOrigins.items
            IN  /\ Includes(items, targetOrigin)
                /\ (\E j \in 1..Len(items) : items[j] # Wildcard) =>
                      targetOrigin # Wildcard
                /\ targetOrigin = Wildcard =>
                      "Security Warning: Sending message with wildcard origin" \in cbWarnings

(* C18 *)

\* C18: once the auto-close delay has passed, autoClose not being disabled:
\* a page with a live opener has attempted window.close() once and stays
\* where it is whatever close() did; a page with no live opener and a
\* redirectUrl has navigated to redirectUrl and has not attempted to close;
\* a page with no live opener and no redirectUrl has neither navigated nor
\* attempted to close.
C18_AutoCloseOutcome ==
    cbTimer.scheduled = 1 /\ ~cbTimer.pending =>
        IF cbRequest.env.opener = "live"
        THEN cbPage.closeCalls = 1 /\ cbPage.location = CallbackUrl
        ELSE IF Truthy(cbRequest.opts.redirectUrl)
        THEN /\ cbPage.location = cbRequest.opts.redirectUrl
             /\ cbPage.closeCalls = 0 /\ ~cbPage.closed
        ELSE /\ cbPage.location = CallbackUrl
             /\ cbPage.closeCalls = 0 /\ ~cbPage.closed

(* C19 *)

\* C19: AuthPopup.listen() keeps at most one live listener: at any time at
\* most one listen() call holds a message listener, a broadcast channel or a
\* timer, and it is the latest call; a superseded call holds nothing; and
\* once a call has been cancelled no later message, timer or call gives its
\* promise a result.
C19_OneLiveListener ==
    /\ [](\A i \in 1..Len(listeners) : Live(listeners[i]) => i = Len(listeners))
    /\ [](\A i \in 1..Len(listeners) :
            listeners[i].status # "pending" => ~Live(listeners[i]))
    /\ [][\A i \in 1..Len(listeners) :
            listeners[i].status = "cancelled" => listeners'[i] = listeners[i]]_vars

\* a second listen() superseded a pending first one and a message then
\* resolved the second: the first holds nothing and has no result
C19_Witness ==
    /\ Len(listeners) = 2
    /\ listeners[1].status = "cancelled"
    /\ ~Live(listeners[1])
    /\ listeners[1].allowedOrigins = listeners[2].allowedOrigins
    /\ listeners[2].status = "resolved"

(* C20 *)

\* C20: validateOrigin(origin, allowlist) is an exact string membership test
\* with a wildcard short-circuit: for every origin string and every allowlist
\* it returns true exactly when origin is an element of the allowlist or the
\* allowlist contains "*".
C20_ExactMembership ==
    voOutput.returned =>
        (voOutput.value <=>
            \/ Includes(voInput.allowedOrigins.items, voInput.origin)
            \/ Includes(voInput.allowedOrigins.items, Wildcard))

(* C21 *)

\* A-Z, a-z, 0-9, '-', '.', '_', '~'
UnreservedCodes == (65..90) \cup (97..122) \cup (48..57) \cup {45, 46, 95, 126}

AllIn(chars, codes) == \A i \in 1..Len(chars) : chars[i] \in codes

\* C21: generatePKCE() returns a codeVerifier of exactly 128 characters and
\* generateState() a token of exactly 32 characters, every character of both
\* one of the 66 characters A-Z, a-z, 0-9, '-', '.', '_', '~'; the
\* codeChallengeMethod is always 'S256'.
C21_TokenShape ==
    /\ Cardinality(UnreservedCodes) = 66
    /\ pkce.status = "returned" /\ pkce.call = "generatePKCE" =>
          /\ Len(pkce.value.codeVerifier) = 128
          /\ AllIn(pkce.value.codeVerifier, UnreservedCodes)
          /\ pkce.value.codeChallengeMethod = "S256"
    /\ pkce.status = "returned" /\ pkce.call = "generateState" =>
          /\ Len(pkce.token) = 32
          /\ AllIn(pkce.token, UnreservedCodes)

\* generateState() returned a token made from the bytes 255, 6, 13, ...
C21_Witness ==
    /\ pkce.status = "returned" /\ pkce.call = "generateState"
    /\ pkce.env.random = [start |-> 255, step |-> 7]
    /\ Len(pkce.token) = 32
    /\ pkce.token[1] = 53 /\ pkce.token[2] = 71

(* C22 *)

\* bit j (from 0, most significant first) of a byte string, 0 past its end
BitAt(bytes, j) ==
    IF j \div 8 >= Len(bytes) THEN 0
    ELSE (bytes[(j \div 8) + 1] \div (2 ^ (7 - (j % 8)))) % 2

\* the base64url alphabet A-Z a-z 0-9 - _
Base64UrlCode(v) ==
    IF v < 26 THEN 65 + v ELSE IF v < 52 THEN 71 + v ELSE IF v < 62 THEN v - 4
    ELSE IF v = 62 THEN 45 ELSE 95

\* base64url without padding, six bits at a time
Base64UrlNoPad(bytes) ==
    [k \in 1..((8 * Len(bytes) + 5) \div 6) |->
        Base64UrlCode(32 * BitAt(bytes, 6 * (k - 1)) + 16 * BitAt(bytes, 6 * (k - 1) + 1)
                      + 8 * BitAt(bytes, 6 * (k - 1) + 2) + 4 * BitAt(bytes, 6 * (k - 1) + 3)
                      + 2 * BitAt(bytes, 6 * (k - 1) + 4) + BitAt(bytes, 6 * (k - 1) + 5))]

\* C22: for every pair generatePKCE() returns, codeChallenge is the base64url
\* encoding, without '=' padding and with '-' and '_' for '+' and '/', of the
\* SHA-256 digest taken of codeVerifier.
C22_ChallengeIsDigestOfVerifier ==
    pkce.status = "returned" /\ pkce.call = "generatePKCE" =>
        /\ pkce.digest.algorithm = "SHA-256"
        /\ pkce.digest.data = pkce.value.codeVerifier
        /\ pkce.value.codeChallenge = Base64UrlNoPad(pkce.digest.buffer)

\* the digest 251, 252, ..., 26 came back as -_z9_v8AAQIDBAUGBwgJCgsMDQ4PEBESExQVFhcYGRo
C22_Witness ==
    /\ pkce.status = "returned" /\ pkce.call = "generatePKCE"
    /\ pkce.env.digest = [start |-> 251, step |-> 1]
    /\ pkce.value.codeChallenge =
        <<45, 95, 122, 57, 95, 118, 56, 65, 65, 81, 73, 68, 66, 65, 85, 71, 66,
          119, 103, 74, 67, 103, 115, 77, 68, 81, 52, 80, 69, 66, 69, 83, 69,
          120, 81, 86, 70, 104, 99, 89, 71, 82, 111>>

(* C23 *)

\* the character generateRandomString makes of a byte, and the bytes that
\* give a character
CharOfByte(b) == charset[(b % Len(charset)) + 1]
Preimages(ch) == {b \in 0..255 : CharOfByte(b) = ch}

\* C23: each character of a generated verifier or state token is uniform
\* over the charset: every character of the charset has as many byte
\* preimages (among 0..255) as the characters of the token have.
C23_UniformCharacters ==
    pkce.status = "returned" =>
        LET token == IF pkce.call = "generatePKCE" THEN pkce.value.codeVerifier
                     ELSE pkce.token
        IN  \A i \in 1..Len(token), j \in 1..Len(charset) :
                Cardinality(Preimages(token[i])) = Cardinality(Preimages(charset[j]))

(* C24 *)

\* C24: without crypto.getRandomValues, generatePKCE() and generateState()
\* fail with an error and return no token; without crypto.subtle,
\* generatePKCE() fails with an error and returns no challenge; no other
\* random or digest source is used in their place.
C24_NoWeakFallback ==
    pkce.call # "none" =>
        /\ pkce.env.crypto \in {"undefined", "noRandom"} =>
              /\ pkce.status = "threw"
              /\ pkce.message = "crypto.getRandomValues is not available in this environment"
              /\ pkce.token = <<>> /\ pkce.value = NoChallenge
        /\ pkce.env.crypto = "noSubtle" /\ pkce.call = "generatePKCE" =>
              /\ pkce.status = "threw"
              /\ pkce.message = "crypto.subtle is not available in this environment"
              /\ pkce.value = NoChallenge /\ pkce.digest = NoDigest
        /\ pkce.status = "returned" /\ pkce.call = "generateState" =>
              pkce.token = [i \in 1..32 |-> CharOfByte(Bytes(pkce.env.random, 32)[i])]

\* generatePKCE() failed in a page that has getRandomValues and no
\* crypto.subtle
C24_Witness ==
    /\ pkce.call = "generatePKCE"
    /\ pkce.env.crypto = "noSubtle"
    /\ pkce.status = "threw"
    /\ pkce.value = NoChallenge

(* C25 *)

\* the step resolves the promise of an armed request
Resolves == Armed /\ promise.status = "pending" /\ promise'.status = "resolved"

\* C25: a step in which a success message settles the request closes the
\* agent window exactly when forceClosePopup is set: with forceClosePopup the
\* window is closed after the step and the handle dropped, without it
\* (the default) the window and the handle are left as they were.
C25_SuccessClosesOnlyWhenForced ==
    [][Resolves =>
          IF Truthy(options.forceClosePopup)
          THEN win'.closed /\ (~win.closed => popup' = Null)
          ELSE win' = win /\ popup' = popup]_vars

\* a success message resolved a request made without forceClosePopup and
\* the agent window is still open
C25_Witness ==
    /\ Armed /\ promise.status = "resolved"
    /\ lastEvent.kind \in {"window", "broadcast"}
    /\ lastEvent.msg.type = "auth-success"
    /\ ~Truthy(options.forceClosePopup)
    /\ win.exists /\ ~win.closed /\ popup # Null

(* C26 *)

\* C26: with autoClose set to false, handleCallback still sends its message
\* on the channels and returns its result, and schedules no timer: the
\* callback page is never closed and never navigated by the processor.
C26_AutoCloseDisabled ==
    cbPhase = "done" /\ cbRequest.opts.autoClose = "false" =>
        /\ cbResult.returned
        /\ cbRequest.env.bc = "ok" => Len(cbBroadcasts) = 1
        /\ cbRequest.env.opener = "live" => Len(cbPosts) = 1 \/ PostMessageThrew
        /\ cbTimer = NoTimer
        /\ cbPage = [closed |-> FALSE, location |-> CallbackUrl, closeCalls |-> 0]

\* with autoClose false and a redirectUrl, a success went out on both
\* channels and nothing was scheduled
C26_Witness ==
    /\ cbPhase = "done"
    /\ cbRequest.opts.autoClose = "false"
    /\ Truthy(cbRequest.opts.redirectUrl)
    /\ cbResult.success
    /\ Len(cbBroadcasts) = 1 /\ Len(cbPosts) = 1
    /\ cbTimer.scheduled = 0

(* C27 *)

\* the request was rejected by an error message of an allowed sender
RejectedByProvider ==
    /\ Armed /\ promise.status = "rejected"
    /\ firstTerminal.kind \in {"window", "broadcast"}
    /\ firstTerminal.msg.type = "auth-error"
    /\ InAllowlist(firstTerminal.origin, EffectiveAllowed(options))

\* a property of the rejection reason holds the text
Carries(reason, text) == text \in {reason.name, reason.message}

\* C27: when an error message of an allowed sender settles the request, the
\* rejection carries the provider's error code and, when there is one, its
\* error_description, both unchanged.
C27_ProviderErrorVerbatim ==
    RejectedByProvider =>
        /\ Carries(promise.reason, firstTerminal.msg.data.error)
        /\ Truthy(firstTerminal.msg.data.error_description) =>
              Carries(promise.reason, firstTerminal.msg.data.error_description)

(* C28 *)

\* C28: the rejection of open() identifies its cause: a rejection made for a
\* provider-reported error is none of the rejections made for a timeout or a
\* user-closed window, whatever text the provider supplied, and the three
\* causes are rejected with different error classes.
C28_CauseIdentified ==
    /\ RejectedByProvider =>
          /\ promise.reason # Err("Error", "Authorization timeout")
          /\ promise.reason # Err("Error", "Authorization popup was closed")
          /\ promise.reason.name \notin
                {OutcomeOf(Event("timeout", Undefined, NonObjectMsg, NoRequest)).reason.name,
                 OutcomeOf(Event("poll", Undefined, NonObjectMsg, NoRequest)).reason.name}
    /\ Armed /\ promise.status = "rejected" /\ firstTerminal.kind = "timeout" =>
          promise.reason.name #
              OutcomeOf(Event("poll", Undefined, NonObjectMsg, NoRequest)).reason.name

(* C29 *)

\* the step is a tick of the liveness poll of a pending request
PendingPollTick ==
    Armed /\ ~isSettled /\ promise.status = "pending" /\ lastEvent'.kind = "poll"

\* C29: on a tick of the liveness poll of a pending request, a window that
\* is observed closed settles the request with the popup-closed failure, and
\* a probe that throws changes nothing: the request stays pending with the
\* deadline timer, the poll and the listeners armed as before.
C29_PollTick ==
    [][PendingPollTick =>
          /\ (~win.isolated /\ win.closed) =>
                promise' = Rejected(Err("Error", "Authorization popup was closed"))
          /\ win.isolated =>
                /\ UNCHANGED coordVars
                /\ {"timeout", "interval"} \subseteq timers'
                /\ windowListener']_vars

\* the poll ticked on a closed window whose probe throws, and the request
\* is pending with everything armed
C29_Witness ==
    /\ Armed /\ ~isSettled /\ promise.status = "pending"
    /\ lastEvent.kind = "poll"
    /\ win.isolated /\ win.closed
    /\ {"timeout", "interval"} \subseteq timers
    /\ windowListener

(* C30 *)

\* a success message without a code, from a sender the coordinator accepts
CodelessSuccess(ev) ==
    /\ ev.kind \in {"window", "broadcast"}
    /\ ev.msg.isObject /\ ev.msg.type = "auth-success"
    /\ ~Truthy(ev.msg.data.code)
    /\ InAllowlist(ev.origin, EffectiveAllowed(options))

\* C30: a success message of an allowed sender whose code is empty or
\* missing does not settle the request: the step changes nothing, so a
\* pending request stays pending with its timers and listeners armed, and a
\* later message, poll tick or deadline can settle it.
C30_CodelessSuccessIgnored ==
    /\ [][Armed /\ CodelessSuccess(lastEvent') => UNCHANGED coordVars]_vars
    /\ [](Armed /\ CodelessSuccess(lastEvent) /\ ~isSettled =>
            /\ promise.status = "pending"
            /\ {"timeout", "interval"} \subseteq timers
            /\ windowListener /\ messageHandler.installed
            /\ ENABLED Timeout /\ ENABLED PollTick /\ ENABLED WindowMessage)

\* a pending request has just been handed a success message with an empty
\* code by an allowed sender, and is still pending and armed
C30_Witness ==
    /\ Armed /\ ~isSettled /\ promise.status = "pending"
    /\ lastEvent.kind = "window"
    /\ lastEvent.origin = SelfOrigin
    /\ lastEvent.msg = Msg("auth-success", Data("", "xyz", Undefined, Undefined))
    /\ InAllowlist(lastEvent.origin, EffectiveAllowed(options))
    /\ {"timeout", "interval"} \subseteq timers

(* C31 *)

\* C31: the listeners and the settlement handlers are armed before the agent
\* window can deliver anything: in every state where open() has opened the
\* window and the request is not settled, the window 'message' listener is
\* registered with its handler, both settlement handlers are installed, and
\* a broadcast channel that exists has its onmessage handler.
C31_ArmedBeforeDelivery ==
    Armed /\ ~isSettled =>
        /\ win.exists
        /\ windowListener /\ messageHandler.installed
        /\ successHandler # Null /\ errorHandler # Null
        /\ channelState \in {"none", "listening"}
        /\ channelState = "listening" <=> broadcastChannel # Null

\* open() has just returned its pending promise in a browser with broadcast
\* channels: listener, handlers and channel are all in place
C31_Witness ==
    /\ Armed /\ ~isSettled /\ promise.status = "pending"
    /\ lastEvent.kind = "open"
    /\ lastEvent.req.bc = "ok"
    /\ win.exists /\ ~win.closed
    /\ windowListener /\ successHandler # Null
    /\ channelState = "listening"


(* C32 *)

\* the step was a message or a liveness-poll tick handled while the request
\* was pending, and the request is pending after it
PendingActivity ==
    /\ Armed /\ ~isSettled /\ ~isSettled'
    /\ lastEvent'.kind \in {"window", "broadcast", "poll"}

\* C32: the deadline is armed exactly once, when the wait begins: an armed
\* request has had one setTimeout call for its deadline, the deadline timer
\* is live for as long as the request is unsettled, and no message
\* (untrusted, malformed, or valid but ignored) and no liveness-poll tick
\* that leaves the request pending sets the timer again, clears it or
\* changes its id.
C32_DeadlineArmedOnce ==
    /\ [](Armed => timeoutsSet = 1)
    /\ [](Armed /\ ~isSettled => "timeout" \in timers /\ timeoutId # Null)
    /\ [][PendingActivity =>
            /\ timeoutsSet' = timeoutsSet
            /\ timeoutId' = timeoutId
            /\ "timeout" \in timers']_vars

\* a broadcast success message without a code was handled and ignored: the
\* request is pending and the one deadline is still running
C32_Witness ==
    /\ Armed /\ ~isSettled /\ promise.status = "pending"
    /\ lastEvent.kind = "broadcast"
    /\ lastEvent.msg.isObject /\ lastEvent.msg.type = "auth-success"
    /\ timeoutsSet = 1
    /\ "timeout" \in timers /\ timeoutId # Null


(* C33 *)

\* inspecting the handle raises: the closed flag or the dimensions cannot be read
ProbeThrows(h) == ~h.isNull /\ (h.closed = "throws" \/ h.dims = "throws")

\* what authorize did with the verdict of isPopupBlocked: it went on to wait
\* ("false"), failed as blocked ("true"), or the probe's exception left it
ObservedVerdict ==
    IF phase = "waiting" THEN "false"
    ELSE IF promise.status = "rejected"
            /\ promise.reason.message \in {"Popup blocked, redirecting to authorization page",
                                           "Popup was blocked by browser"}
         THEN "true"
    ELSE "throws"

\* C33: isPopupBlocked is true for a null handle, for a closed handle and for
\* a handle reporting zero inner width and height, and false when inspecting
\* the handle throws: the exception neither counts as blocked nor propagates.
C33_BlockedProbeFailsOpen ==
    lastEvent.kind = "open" /\ ~ConfigInvalid(lastEvent.req.opts) =>
        /\ HandleBlocked(lastEvent.req.h) => ObservedVerdict = "true"
        /\ ProbeThrows(lastEvent.req.h) => ObservedVerdict = "false"


(* C34 *)

\* C34: one handleCallback call produces its outcome once: at most one
\* message is posted on the broadcast channel, at most one postMessage is
\* made to the opener and at most one self-close/redirect timer is
\* scheduled, whether process() returned from its try block, returned from
\* its catch block or threw.
C34_OutcomeProducedOnce ==
    cbPhase # "idle" =>
        /\ Len(cbBroadcasts) <= 1
        /\ Len(cbPosts) <= 1
        /\ cbTimer.scheduled <= 1


(* C35 *)

\* the callback page has left the callback URL
Navigated == cbPage.location # CallbackUrl

\* C35: in redirect mode the callback page navigates to redirectUrl only
\* after a successful callback: a page whose callback was classified as a
\* provider error or as invalid_callback is never navigated.
C35_RedirectOnlyAfterSuccess ==
    Navigated =>
        /\ cbPage.location = cbRequest.opts.redirectUrl
        /\ cbRequest.env.opener # "live"
        /\ cbResult.returned /\ cbResult.success


(* C36 *)

\* the timers, the window listener and the channel of the request are gone
TornDown ==
    /\ timers = {} /\ timeoutId = Null /\ checkInterval = Null
    /\ ~windowListener /\ ~messageHandler.installed
    /\ channelState # "listening" /\ broadcastChannel = Null

\* C36: whenever the coordinator has marked the request settled and released
\* its resources, the promise was resolved or rejected in that same step:
\* no state has the settled flag set and the timers and listeners torn down
\* while the promise is pending, a data-less 'auth-error' and a throwing
\* closed probe in cleanup included.
C36_SettledMeansDecided ==
    Armed /\ isSettled /\ TornDown =>
        /\ promise.status # "pending"
        /\ settleCalls = 1


----------------------------------------------------------------------------
(* Two AuthPopup.open() calls pending in one parent page: each call makes   *)
(* its own instance (auth-popup.ts:25-28), every instance adds its listener *)
(* to the one parent window and opens its own BroadcastChannel object on    *)
(* CHANNEL_NAME. The browser runs every listener of the window for a        *)
(* 'message' event and every open channel object of the name for a          *)
(* broadcast, in the order they were registered.                            *)

Instances == {1, 2}
Other(i) == IF i = 1 THEN 2 ELSE 1

\* x at place i, y at the other place
Put(i, x, y) == IF i = 1 THEN <<x, y>> ELSE <<y, x>>

\* the handler has returned or thrown: the instance as it stays
AfterHandler(c) == [c EXCEPT !.calls = 0, !.armed = 0, !.threw = FALSE]

\* c, seeing the window of d, which is the same window
SameWindowAs(c, d) ==
    IF c.win.exists /\ d.win.exists
    THEN [c EXCEPT !.win.closed = d.win.closed, !.win.isolated = d.win.isolated]
    ELSE c

\* instance i has become c: the other instance sees what happened to a
\* window they share
Act(p, i, c) ==
    Put(i, AfterHandler(c),
        IF p.shared THEN SameWindowAs(p.inst[Other(i)], c) ELSE p.inst[Other(i)])

HearsWindow(c) == c.phase = "waiting" /\ c.windowListener
HearsBroadcast(c) == c.phase = "waiting" /\ c.channelState = "listening"

\* the window listener of every instance that has one runs, the first
\* instance's first
RunWindowListeners(p, origin, msg) ==
    LET a1 == IF HearsWindow(p.inst[1]) THEN MessageHandler(p.inst[1], origin, msg)
              ELSE p.inst[1]
        b0 == IF p.shared THEN SameWindowAs(p.inst[2], a1) ELSE p.inst[2]
        b1 == IF HearsWindow(b0) THEN MessageHandler(b0, origin, msg) ELSE b0
        a2 == IF p.shared THEN SameWindowAs(a1, b1) ELSE a1
    IN  <<AfterHandler(a2), AfterHandler(b1)>>

\* the onmessage of every instance whose channel is open runs, the first
\* instance's first
RunChannelListeners(p, msg) ==
    LET a1 == IF HearsBroadcast(p.inst[1]) THEN BroadcastOnMessage(p.inst[1], msg)
              ELSE p.inst[1]
        b0 == IF p.shared THEN SameWindowAs(p.inst[2], a1) ELSE p.inst[2]
        b1 == IF HearsBroadcast(b0) THEN BroadcastOnMessage(b0, msg) ELSE b0
        a2 == IF p.shared THEN SameWindowAs(a1, b1) ELSE a1
    IN  <<AfterHandler(a2), AfterHandler(b1)>>

\* the instances that are pending and have a listener for the event
PendingOnWindow(p) ==
    {i \in Instances : HearsWindow(p.inst[i]) /\ ~p.inst[i].isSettled}
PendingOnChannel(p) ==
    {i \in Instances : HearsBroadcast(p.inst[i]) /\ ~p.inst[i].isSettled}

\* window.open hands back a window that is open and readable
UsableHandle == Handle(FALSE, "false", "nonzero")

PairOptionInputs ==
    {BaseOptions,
     [BaseOptions EXCEPT !.forceClosePopup = "true"],
     [BaseOptions EXCEPT !.allowedOrigins = Arr(<<PartnerOrigin>>)]}
PairOrigins == {SelfOrigin, PartnerOrigin, EvilOrigin}
PairMessages ==
    {Msg("auth-success", Data("abc123", "xyz", Undefined, Undefined)),
     Msg("auth-success", Data("", "xyz", Undefined, Undefined)),
     Msg("auth-error", Data(Undefined, Undefined, "access_denied", "User cancelled")),
     Msg("auth-error", NoData),
     NonObjectMsg}

PairInit ==
    /\ ProgramInit
    /\ sanInput = NoSanInput
    /\ sanOutput = <<>>
    /\ voInput = NoVoInput
    /\ voOutput = NoVoOutput
    /\ pair \in {[NoPair EXCEPT !.ua = ua, !.bc = bc] :
                    ua \in UserAgents, bc \in BroadcastSupport}

PairStep(inst, ev) ==
    /\ pair' = [pair EXCEPT !.inst = inst, !.lastEvent = ev]
    /\ UNCHANGED <<coordVars, lastEvent, firstTerminal, settleCalls, timeoutsSet, cbVars,
                   utilVars, listeners, pkce>>

\* the page calls AuthPopup.open(options); the second call comes while the
\* first is armed. On a desktop the second window.open names the window the
\* first call opened: while that window is open it is navigated to authUrl
\* and handed back, and both instances hold it.
PairOpen ==
    \E i \in Instances, opts \in PairOptionInputs :
        /\ pair.inst[i].phase = "idle"
        /\ i = 2 => pair.inst[1].phase = "waiting"
        /\ LET first == pair.inst[Other(i)]
               shares == /\ pair.ua = "desktop"
                         /\ first.win.exists /\ ~first.win.closed
               c == authorize(pair.inst[i], opts, pair.ua, UsableHandle, pair.bc)
           IN  /\ pair' = [pair EXCEPT
                              !.inst = Put(i, AfterHandler(c),
                                           IF shares THEN SameWindowAs(first, c)
                                           ELSE first),
                              !.shared = shares,
                              !.lastEvent = PairEvent("open", Undefined, NonObjectMsg, {})]
               /\ UNCHANGED <<coordVars, lastEvent, firstTerminal, settleCalls,
                              timeoutsSet, cbVars, utilVars, listeners, pkce>>

\* a 'message' event on the parent window: every registered listener runs
PairWindowMessage ==
    /\ \E i \in Instances : HearsWindow(pair.inst[i])
    /\ \E origin \in PairOrigins, msg \in PairMessages :
          PairStep(RunWindowListeners(pair, origin, msg),
                   PairEvent("window", origin, msg, PendingOnWindow(pair)))

\* a page of the parent's origin posts on the channel name: the onmessage of
\* every open channel object of the name runs
PairBroadcastMessage ==
    /\ \E i \in Instances : HearsBroadcast(pair.inst[i])
    /\ \E msg \in PairMessages :
          PairStep(RunChannelListeners(pair, msg),
                   PairEvent("broadcast", SelfOrigin, msg, PendingOnChannel(pair)))

\* the liveness poll of one instance ticks
PairPollTick ==
    \E i \in Instances :
        /\ "interval" \in pair.inst[i].timers
        /\ PairStep(Act(pair, i, CheckIntervalTick(pair.inst[i])),
                    PairEvent("poll", Undefined, NonObjectMsg, {}))

\* the deadline of one instance fires
PairTimeout ==
    \E i \in Instances :
        /\ "timeout" \in pair.inst[i].timers
        /\ PairStep(Act(pair, i,
                        TimeoutFires([pair.inst[i] EXCEPT !.timers = @ \ {"timeout"}])),
                    PairEvent("timeout", Undefined, NonObjectMsg, {}))

\* the agent window of one instance navigates to or from a page whose
\* isolation policy makes reading popup.closed raise
PairPopupNavigates ==
    \E i \in Instances :
        /\ pair.inst[i].phase = "waiting"
        /\ pair.inst[i].win.exists /\ ~pair.inst[i].win.closed
        /\ PairStep(Act(pair, i, [pair.inst[i] EXCEPT !.win.isolated = ~@]),
                    PairEvent("navigated", Undefined, NonObjectMsg, {}))

PairNext ==
    \/ PairOpen
    \/ PairWindowMessage
    \/ PairBroadcastMessage
    \/ PairPollTick
    \/ PairTimeout
    \/ PairPopupNavigates

PairSpec == PairInit /\ [][PairNext]_vars

(* C37 *)

\* a success message with a code, or an error message with its data
ValidCallback(msg) ==
    /\ msg.isObject
    /\ msg.data.present
    /\ \/ msg.type = "auth-success" /\ Truthy(msg.data.code)
       \/ msg.type = "auth-error"

\* the instance lets a window message of this origin through
Admits(c, origin) == validateOrigin(origin, Arr(EffectiveAllowed(c.options)))

\* the last step handed one valid callback message to both instances, both
\* pending
OneMessageForBoth ==
    /\ pair.lastEvent.kind \in {"window", "broadcast"}
    /\ pair.lastEvent.heard = Instances
    /\ ValidCallback(pair.lastEvent.msg)
    /\ pair.lastEvent.kind = "window" =>
          \A i \in Instances : Admits(pair.inst[i], pair.lastEvent.origin)

\* C37: two open() calls pending at the same time in one parent page have
\* each their own listener on the parent window and their own channel object
\* on the one channel name, and a single valid callback message settles both
\* requests, with the same outcome: the outcome the message stands for,
\* whichever request's agent window sent it.
C37_OneMessageSettlesBoth ==
    /\ \A i \in Instances :
          pair.inst[i].phase = "waiting" /\ ~pair.inst[i].isSettled =>
              /\ pair.inst[i].windowListener
              /\ pair.bc = "ok" => pair.inst[i].channelState = "listening"
    /\ OneMessageForBoth =>
          /\ pair.inst[1].promise = pair.inst[2].promise
          /\ pair.inst[1].promise = OutcomeOf(pair.lastEvent)


(* C38 *)

\* the browser hands a postMessage to the opener only when the target origin
\* is "*" or the origin of the opener
Receives(openerOrigin, post) ==
    post.targetOrigin = Wildcard \/ post.targetOrigin = openerOrigin

\* the allowlist entries after the first that differ from the first
LaterEntries(items) == {items[i] : i \in 2..Len(items)} \ {items[1]}

\* C38: with no wildcard in the callback allowlist, the postMessage to a
\* live opener is addressed to the first allowlist entry and to nothing
\* else: an opener whose origin is a later entry of the allowlist does not
\* receive it.
C38_FirstEntryOnly ==
    (/\ cbPhase = "done"
     /\ cbRequest.env.opener = "live"
     /\ ~Includes(cbRequest.opts.allowedOrigins.items, Wildcard))
        => \/ cbPosts = <<>> /\ PostMessageThrew
           \/ /\ Len(cbPosts) = 1
              /\ cbPosts[1].targetOrigin = cbRequest.opts.allowedOrigins.items[1]
              /\ \A o \in LaterEntries(cbRequest.opts.allowedOrigins.items) :
                    ~Receives(o, cbPosts[1])

\* the allowlist names the page's origin and then the partner's: the one
\* postMessage is addressed to the page's origin, and an opener at the
\* partner's origin does not receive it
C38_Witness ==
    /\ cbPhase = "done"
    /\ cbRequest.env.opener = "live"
    /\ cbRequest.opts.allowedOrigins = Arr(<<SelfOrigin, PartnerOrigin>>)
    /\ Len(cbPosts) = 1
    /\ cbPosts[1].targetOrigin = SelfOrigin
    /\ ~Receives(PartnerOrigin, cbPosts[1])
    /\ Receives(SelfOrigin, cbPosts[1])


(* C39 *)

\* the message is not an object, or its type is neither of the two
Foreign(msg) == ~msg.isObject \/ msg.type \notin {"auth-success", "auth-error"}

\* the step handed the coordinator a foreign message that its origin check
\* let through
ForeignMessageStep ==
    /\ Armed /\ ~isSettled
    /\ lastEvent'.kind \in {"window", "broadcast"}
    /\ Foreign(lastEvent'.msg)
    /\ lastEvent'.kind = "window" =>
          validateOrigin(lastEvent'.origin, Arr(messageHandler.allowedOrigins))

\* C39: a message from an allowed origin that is not an object, or whose type
\* is neither 'auth-success' nor 'auth-error', is ignored: the request stays
\* pending, and the timers, the listeners, the broadcast channel and the
\* popup handle are as they were.
C39_ForeignMessageIgnored ==
    [][ForeignMessageStep =>
          /\ UNCHANGED coordVars
          /\ UNCHANGED <<settleCalls, timeoutsSet, firstTerminal>>
          /\ promise'.status = "pending" /\ ~isSettled']_vars

\* a message of type 'other' from the page's own origin was handled: the
\* request is pending and everything is armed
C39_Witness ==
    /\ Armed /\ ~isSettled /\ promise.status = "pending"
    /\ lastEvent.kind = "window"
    /\ lastEvent.origin = SelfOrigin
    /\ lastEvent.msg.isObject /\ lastEvent.msg.type = "other"
    /\ validateOrigin(lastEvent.origin, Arr(messageHandler.allowedOrigins))
    /\ {"timeout", "interval"} \subseteq timers
    /\ windowListener /\ popup # Null

====
